---- MODULE Spec2Model ----
(***************************************************************************)
(* Model of the TriMet batched ingestion pipelines:                        *)
(*   - the breadcrumb pipeline   (src/Project_part2: subcriber.py,         *)
(*     validation.py, Gtransformation.py), specification SpecBC;           *)
(*   - the stop-event pipeline   (src/Project_part3/                       *)
(*     subscriber3_stopevent.py), specification SpecSE.                    *)
(* Threads are the delivery callbacks (one per delivered message) and the  *)
(* control loop ("main").  Every step of a thread is one action.           *)
(***************************************************************************)
EXTENDS Integers, Sequences, FiniteSets, TLC

----------------------------------------------------------------------------
(* Bounds of the model.                                                    *)

\* number of messages the channel delivers in one run
NMsgs == 2
\* size threshold of the breadcrumb pipeline (1000 in main(), scaled down)
BATCH_SIZE == 2
\* size threshold of a breadcrumb run with more concurrent callbacks than
\* the threshold
CrowdedBatchSize == 1
\* largest BATCH_SIZE setting the stop-event pipeline is started with
MaxBatchSize == 2
\* idle timeout in seconds (60 in the source and by default, scaled down)
IDLE_TIMEOUT == 5
\* number of batches a run of the loader alone processes
MaxLoads == 2
\* largest frame given to _append_speed alone
MaxRows == 3

(* Program constants.                                                      *)

\* time.sleep(5) of the breadcrumb control loop
SLEEP_SECONDS == 5
\* time.sleep(5) of the stop-event monitor loop
MONITOR_SLEEP_SECONDS == 5
\* upper bound of a plausible odometer reading, in meters
MAX_METERS == 1000000
\* upper bound of a plausible SPEED field, in m/s
MAX_SPEED == 45

----------------------------------------------------------------------------
(* Python values.  A JSON value is a tagged tuple, so that values of       *)
(* different Python types can be told apart and compared:                  *)
(*   <<"int", n>>, <<"float", t>> (t = the value in tenths),               *)
(*   <<"str", segs>> (segs = the string split at ":"), <<"None">>,         *)
(*   <<"list">> (an unhashable, non-numeric JSON array).                   *)
(* A decoded record (a Python dict) is a TLA+ record of such values.       *)

PyInt(n) == <<"int", n>>
PyFloat(t) == <<"float", t>>
PyStr(segs) == <<"str", segs>>
PyNone == <<"None">>
PyList == <<"list">>

IsInt(v) == v[1] = "int"
IsNumeric(v) == v[1] \in {"int", "float"}
IsStr(v) == v[1] = "str"

\* numeric value of an int or float, in tenths
Num(v) == IF v[1] = "int" THEN 10 * v[2] ELSE v[2]

\* the value as a dict key / set member: Python hashes and compares 1 and
\* 1.0 as equal; a list is unhashable
Hashable(v) == v[1] # "list"
KeyVal(v) == IF IsNumeric(v) THEN <<"num", Num(v)>> ELSE v

\* dict.get(field, default)
Get(record, field, default) ==
    IF field \in DOMAIN record THEN record[field] ELSE default

Abs(n) == IF n < 0 THEN -n ELSE n

----------------------------------------------------------------------------
(* Breadcrumb validator: src/Project_part2/validation.py                   *)

RequiredFields ==
    {"EVENT_NO_TRIP", "OPD_DATE", "ACT_TIME", "VEHICLE_ID",
     "GPS_LATITUDE", "GPS_LONGITUDE", "METERS"}

\* isinstance(record[field], expected_type)
ExpectedType(field, v) ==
    CASE field \in {"EVENT_NO_TRIP", "VEHICLE_ID"} -> IsInt(v)
      [] field = "OPD_DATE" -> IsStr(v)
      [] OTHER -> IsNumeric(v)

\* TRUE iff no AssertionError is raised
validate_required_fields(record) ==
    /\ RequiredFields \subseteq DOMAIN record
    /\ \A f \in RequiredFields :
          record[f] # PyNone /\ ExpectedType(f, record[f])

\* a validator without the GPS assertions
gps_validator_open(record) == TRUE

gps_validator(record) ==
    LET lat == Num(record.GPS_LATITUDE)
        lon == Num(record.GPS_LONGITUDE)
    IN  /\ 452 <= lat /\ lat <= 457
        /\ -1240 <= lon /\ lon <= -1220
        /\ Abs(lat) >= 10 /\ Abs(lon) >= 10

\* "ok", "reject" (AssertionError) or "raise" (TypeError of None >= 0)
validate_speed_plausibility(record) ==
    IF "SPEED" \notin DOMAIN record THEN "ok"
    ELSE IF ~IsNumeric(record.SPEED) THEN "raise"
    ELSE IF Num(record.SPEED) < 0 THEN "reject"
    ELSE IF Num(record.SPEED) > 10 * MAX_SPEED THEN "reject"
    ELSE "ok"

validate_vehicle_data(record) ==
    /\ record.VEHICLE_ID[2] > 0
    /\ Num(record.METERS) >= 0
    /\ Num(record.METERS) <= 10 * MAX_METERS

\* called without last_latlon by validate_records: checks nothing
check_geographic_jump(record) == TRUE

validate_temporal_data(record) == Num(record.ACT_TIME) >= 0

\* the DedupKey of a record that has EVENT_NO_STOP
DedupKey(record) ==
    << KeyVal(record.VEHICLE_ID), KeyVal(record.EVENT_NO_TRIP),
       KeyVal(record.EVENT_NO_STOP), KeyVal(record.ACT_TIME),
       KeyVal(record.METERS) >>

\* a duplicate check that rejects nothing
duplicates_check_accepting(record, processed_combinations) == "accept"

\* "accept", "reject" (duplicate) or "raise" (KeyError: no EVENT_NO_STOP,
\* TypeError: unhashable EVENT_NO_STOP)
duplicates_check(record, processed_combinations) ==
    IF "EVENT_NO_STOP" \notin DOMAIN record THEN "raise"
    ELSE IF ~Hashable(record.EVENT_NO_STOP) THEN "raise"
    ELSE IF DedupKey(record) \in processed_combinations THEN "reject"
    ELSE "accept"

\* a validate_records that checks the speed before everything else
validate_records_speed_first(record, processed_combinations) ==
    IF validate_speed_plausibility(record) # "ok"
    THEN validate_speed_plausibility(record)
    ELSE IF ~validate_required_fields(record) THEN "reject"
    ELSE IF ~gps_validator(record) THEN "reject"
    ELSE IF ~validate_vehicle_data(record) THEN "reject"
    ELSE IF ~check_geographic_jump(record) THEN "reject"
    ELSE IF ~validate_temporal_data(record) THEN "reject"
    ELSE duplicates_check(record, processed_combinations)

\* the verdict of validate_records: "accept" (True), "reject" (False, an
\* AssertionError was caught) or "raise" (another exception leaves it)
validate_records(record, processed_combinations) ==
    IF ~validate_required_fields(record) THEN "reject"
    ELSE IF ~gps_validator(record) THEN "reject"
    ELSE IF validate_speed_plausibility(record) # "ok"
         THEN validate_speed_plausibility(record)
    ELSE IF ~validate_vehicle_data(record) THEN "reject"
    ELSE IF ~check_geographic_jump(record) THEN "reject"
    ELSE IF ~validate_temporal_data(record) THEN "reject"
    ELSE duplicates_check(record, processed_combinations)

\* a validator that records no key
SeenAfterForgetting(record, processed_combinations) == processed_combinations

\* the dedup set after validate_records(record)
SeenAfter(record, processed_combinations) ==
    IF validate_records(record, processed_combinations) = "accept"
    THEN processed_combinations \cup {DedupKey(record)}
    ELSE processed_combinations

----------------------------------------------------------------------------
(* Transformation and TripInfoBuilder: src/Project_part2/Gtransformation.py *)

\* datetime.strptime(date_part, "%d%b%Y") on the dates the model uses:
\* the day number counted from Sunday 01JAN2023, or -1 for a ValueError
strptime_day(date_part) ==
    CASE date_part = "01JAN2023" -> 0
      [] date_part = "02JAN2023" -> 1
      [] date_part = "07JAN2023" -> 6
      [] OTHER -> -1

\* timestamp in tenths of a second since 01JAN2023, or -1 when the
\* construction raises (the caller has validated OPD_DATE and ACT_TIME)
combine_date_time(entry) ==
    LET date_part == Head(entry.OPD_DATE[2])
        base == strptime_day(date_part)
    IN  IF base < 0 THEN -1 ELSE base * 864000 + Num(entry.ACT_TIME)

\* one element of `processed`
PositionOf(entry, ts) ==
    [timestamp |-> ts,
     latitude |-> entry.GPS_LATITUDE,
     longitude |-> entry.GPS_LONGITUDE,
     trip_id |-> entry.EVENT_NO_TRIP[2],
     meters |-> Num(entry.METERS)]

\* the loop of Transformation.process over raw_data; the validator's dedup
\* set is threaded through it.  raised = an exception left validate_records
RECURSIVE ProcessLoop(_, _, _)
ProcessLoop(raw_data, seen, processed) ==
    IF raw_data = << >>
    THEN [raised |-> FALSE, processed |-> processed, seen |-> seen]
    ELSE LET entry == Head(raw_data)
             verdict == validate_records(entry, seen)
         IN  IF verdict = "raise"
             THEN [raised |-> TRUE, processed |-> << >>, seen |-> seen]
             ELSE IF verdict = "reject"
             THEN ProcessLoop(Tail(raw_data), seen, processed)
             ELSE LET ts == combine_date_time(entry)
                  IN  ProcessLoop(Tail(raw_data), SeenAfter(entry, seen),
                                  IF ts < 0 THEN processed
                                  ELSE Append(processed, PositionOf(entry, ts)))

\* a float of the speed column: <<"NaN">>, <<"inf">>, <<"-inf">> or
\* <<"val", n, d>>, the fraction n/d in lowest terms with d > 0
NaN == <<"NaN">>

RECURSIVE Gcd(_, _)
Gcd(a, b) == IF b = 0 THEN a ELSE Gcd(b, a % b)

\* dist_delta / time_delta as pandas divides floats (time_delta >= 0 after
\* the sort)
FloatDiv(dist, dt) ==
    IF dt = 0
    THEN (IF dist > 0 THEN <<"inf">> ELSE IF dist < 0 THEN <<"-inf">> ELSE NaN)
    ELSE LET g == Gcd(Abs(dist), dt)
         IN  <<"val", dist \div g, dt \div g>>

RowLess(a, b) ==
    \/ a.trip_id < b.trip_id
    \/ a.trip_id = b.trip_id /\ a.timestamp < b.timestamp

RECURSIVE InsertSorted(_, _)
InsertSorted(sorted, row) ==
    IF sorted = << >> THEN <<row>>
    ELSE IF RowLess(row, Head(sorted)) THEN <<row>> \o sorted
    ELSE <<Head(sorted)>> \o InsertSorted(Tail(sorted), row)

\* df.sort_values(by=["trip_id", "timestamp"]), rows with equal keys kept
\* in their order
RECURSIVE sort_values(_)
sort_values(df) ==
    IF df = << >> THEN << >>
    ELSE InsertSorted(sort_values(SubSeq(df, 1, Len(df) - 1)), df[Len(df)])

\* a quotient that takes the first sample of a trip as standing still
RawSpeedNeverNull(df, i) ==
    IF i = 1 \/ df[i - 1].trip_id # df[i].trip_id THEN <<"val", 0, 1>>
    ELSE FloatDiv(df[i].meters - df[i - 1].meters,
                  df[i].timestamp - df[i - 1].timestamp)

\* dist_delta / time_delta of row i of the sorted frame
RawSpeed(df, i) ==
    IF i = 1 \/ df[i - 1].trip_id # df[i].trip_id THEN NaN
    ELSE FloatDiv(df[i].meters - df[i - 1].meters,
                  df[i].timestamp - df[i - 1].timestamp)

\* a fill that takes the speed of the row above, whatever its trip
RECURSIVE FilledSpeedAcrossTrips(_, _)
FilledSpeedAcrossTrips(df, i) ==
    IF RawSpeed(df, i) # NaN THEN RawSpeed(df, i)
    ELSE IF i > 1 THEN FilledSpeedAcrossTrips(df, i - 1)
    ELSE NaN

\* groupby("trip_id")["speed"].ffill() at row i
RECURSIVE FilledSpeed(_, _)
FilledSpeed(df, i) ==
    IF RawSpeed(df, i) # NaN THEN RawSpeed(df, i)
    ELSE IF i > 1 /\ df[i - 1].trip_id = df[i].trip_id
    THEN FilledSpeed(df, i - 1)
    ELSE NaN

\* the returned columns of the sorted frame, speed derived and filled
WithSpeed(sorted) ==
    [i \in 1..Len(sorted) |->
        [timestamp |-> sorted[i].timestamp,
         latitude |-> sorted[i].latitude,
         longitude |-> sorted[i].longitude,
         speed |-> FilledSpeed(sorted, i),
         trip_id |-> sorted[i].trip_id]]

\* _append_speed(df); the sort is bound by a set so that it is computed
\* once
append_speed(df) ==
    CHOOSE out \in {WithSpeed(sorted) : sorted \in {sort_values(df)}} : TRUE

\* Transformation.process(raw_data) with the validator's dedup set `seen`:
\* [raised, df, seen], df the returned frame (empty when nothing is left);
\* AfterLoop is what follows the loop, whose result is bound by a set so
\* that it is computed once
AfterLoop(r) ==
    [raised |-> r.raised,
     df |-> IF r.raised \/ r.processed = << >> THEN << >>
            ELSE append_speed(r.processed),
     seen |-> r.seen]

\* a process whose validator forgets the keys of the batch afterwards
process_forgetting_keys(raw_data, seen) ==
    [AfterLoop(ProcessLoop(raw_data, seen, << >>)) EXCEPT !.seen = seen]

process(raw_data, seen) ==
    CHOOSE out \in
        {AfterLoop(r) : r \in {ProcessLoop(raw_data, seen, << >>)}} : TRUE

\* service_type of build_summary
ServiceType(data) ==
    IF "OPD_DATE" \notin DOMAIN data THEN "Weekday"
    ELSE IF ~IsStr(data.OPD_DATE) THEN "Weekday"
    ELSE LET day == strptime_day(Head(data.OPD_DATE[2]))
         IN  IF day < 0 THEN "Weekday"
             ELSE IF day % 7 = 0 THEN "Sunday"
             ELSE IF day % 7 = 6 THEN "Saturday"
             ELSE "Weekday"

\* a builder that finds no trip in its summary
SummaryHasNothing(summary, trip) == FALSE

SummaryHas(summary, trip) ==
    \E i \in 1..Len(summary) : KeyVal(summary[i].trip_id) = KeyVal(trip)

\* the loop of TripInfoBuilder.build_summary; summary is the dict's values
\* in insertion order.  raised = TypeError of an unhashable trip id
RECURSIVE build_summary(_, _)
build_summary(records, summary) ==
    IF records = << >> THEN [raised |-> FALSE, summary |-> summary]
    ELSE LET data == Head(records)
             trip == Get(data, "EVENT_NO_TRIP", PyNone)
             vehicle == Get(data, "VEHICLE_ID", PyNone)
             route == Get(data, "ROUTE_ID", PyInt(0))
         IN  IF ~Hashable(trip) THEN [raised |-> TRUE, summary |-> summary]
             ELSE IF SummaryHas(summary, trip)
             THEN build_summary(Tail(records), summary)
             ELSE build_summary(Tail(records),
                      Append(summary,
                             [trip_id |-> trip,
                              route_id |-> route,
                              vehicle_id |-> vehicle,
                              service_key |-> ServiceType(data),
                              direction |-> "Out"]))

\* the breadcrumb rows DatabaseHandler.save_data copies to the sink; tstamp
\* is the timestamp formatted to whole seconds
BreadcrumbRows(validated_df) ==
    [i \in 1..Len(validated_df) |->
        [tstamp |-> validated_df[i].timestamp \div 10,
         latitude |-> validated_df[i].latitude,
         longitude |-> validated_df[i].longitude,
         speed |-> validated_df[i].speed,
         trip_id |-> validated_df[i].trip_id]]

----------------------------------------------------------------------------
(* Stop-event cleaner and loader:                                          *)
(* src/Project_part3/subscriber3_stopevent.py                              *)

\* int(v) on the values the model uses: <<"ok", n>>, <<"ValueError">> (a
\* non-numeric string) or <<"TypeError">> (None, a list)
int_of(v) ==
    CASE v[1] = "int" -> <<"ok", v[2]>>
      [] v[1] = "float" ->
            <<"ok", IF v[2] >= 0 THEN v[2] \div 10 ELSE -((-v[2]) \div 10)>>
      [] v[1] = "str" ->
            (IF v[2] = <<"55">> THEN <<"ok", 55>>
             ELSE IF v[2] = <<"56">> THEN <<"ok", 56>>
             ELSE <<"ValueError">>)
      [] OTHER -> <<"TypeError">>

SERequiredFields ==
    {"trip_id", "route_number", "vehicle_id", "service_key", "direction"}

\* current_record_key of _is_valid_record
RecordKey(record) == <<KeyVal(record.trip_id), KeyVal(record.vehicle_id)>>

\* a record check without the duplicate test
is_valid_record_unkeyed(record, processed_combinations_in_batch) ==
    IF \E f \in SERequiredFields : f \notin DOMAIN record \/ record[f] = PyNone
    THEN "invalid"
    ELSE IF int_of(record.trip_id)[1] = "TypeError" THEN "raise"
    ELSE IF int_of(record.trip_id)[1] = "ValueError" THEN "invalid"
    ELSE IF int_of(record.trip_id)[2] <= 0 THEN "invalid"
    ELSE IF int_of(record.vehicle_id)[1] = "TypeError" THEN "raise"
    ELSE IF int_of(record.vehicle_id)[1] = "ValueError" THEN "invalid"
    ELSE "valid"

\* _is_valid_record: "valid" (True), "invalid" (False) or "raise" (a
\* TypeError of int(), which only `except ValueError` guards)
is_valid_record(record, processed_combinations_in_batch) ==
    IF \E f \in SERequiredFields : f \notin DOMAIN record \/ record[f] = PyNone
    THEN "invalid"
    ELSE IF int_of(record.trip_id)[1] = "TypeError" THEN "raise"
    ELSE IF int_of(record.trip_id)[1] = "ValueError" THEN "invalid"
    ELSE IF int_of(record.trip_id)[2] <= 0 THEN "invalid"
    ELSE IF int_of(record.vehicle_id)[1] = "TypeError" THEN "raise"
    ELSE IF int_of(record.vehicle_id)[1] = "ValueError" THEN "invalid"
    ELSE IF RecordKey(record) \in processed_combinations_in_batch
    THEN "invalid"
    ELSE "valid"

\* the conversion of a valid record raises (caught by process_and_validate)
ConversionFails(record) ==
    \/ ~Hashable(record.service_key)
    \/ int_of(record.route_number)[1] # "ok"

Direction(record) ==
    IF record.direction \in {PyInt(0), PyStr(<<"0">>)} THEN "Out" ELSE "Back"

ServiceKey(record) ==
    CASE record.service_key = PyStr(<<"S">>) -> "Saturday"
      [] record.service_key = PyStr(<<"U">>) -> "Sunday"
      [] OTHER -> "Weekday"

CleanedRow(record) ==
    [trip_id |-> int_of(record.trip_id)[2],
     route_id |-> int_of(record.route_number)[2],
     vehicle_id |-> int_of(record.vehicle_id)[2],
     service_key |-> ServiceKey(record),
     direction |-> Direction(record)]

\* the loop of process_and_validate: [raised, df, invalid, seen], invalid
\* the increments of metrics["total_invalid"] made so far
RECURSIVE CleanLoop(_, _, _, _)
CleanLoop(records, seen, cleaned_data, invalid) ==
    IF records = << >>
    THEN [raised |-> FALSE, df |-> cleaned_data, invalid |-> invalid,
          seen |-> seen]
    ELSE LET record == Head(records)
             verdict == is_valid_record(record, seen)
         IN  IF verdict = "raise"
             THEN [raised |-> TRUE, df |-> << >>, invalid |-> invalid,
                   seen |-> seen]
             ELSE IF verdict = "invalid"
             THEN CleanLoop(Tail(records), seen, cleaned_data, invalid + 1)
             ELSE IF ConversionFails(record)
             THEN CleanLoop(Tail(records), seen \cup {RecordKey(record)},
                            cleaned_data, invalid + 1)
             ELSE CleanLoop(Tail(records), seen \cup {RecordKey(record)},
                            Append(cleaned_data, CleanedRow(record)), invalid)

\* process_and_validate(records): the dedup set is cleared first
process_and_validate(records) == CleanLoop(records, {}, << >>, 0)

\* a filter that lets every row through
NotLoadedUnfiltered(df, loaded_trip_ids) == df

\* the rows of df whose trip_id is not in loaded_trip_ids
NotLoaded(df, loaded_trip_ids) ==
    SelectSeq(df, LAMBDA row : row.trip_id \notin loaded_trip_ids)

TripIds(df) == {df[i].trip_id : i \in 1..Len(df)}

\* COPY into table trip is refused: two rows of the copy, or a row of the
\* copy and a committed row, have the same primary key trip_id
CopyConflicts(df, table) ==
    \/ \E i, j \in 1..Len(df) : i # j /\ df[i].trip_id = df[j].trip_id
    \/ \E i \in 1..Len(df) : \E row \in table : row.trip_id = df[i].trip_id

\* a filter count that takes every row of the batch as skipped
SkippedAfterCountingAll(skipped, df, df_to_insert) == skipped + Len(df)

\* total_skipped after the filter of save_to_postgres
SkippedAfter(skipped, df, df_to_insert) ==
    skipped + (Len(df) - Len(df_to_insert))

\* save_to_postgres: except psycopg2.Error: conn.rollback(), and except
\* Exception: the write is abandoned with nothing committed
RolledBack(m, df_to_insert, table) ==
    [metrics |-> m, table |-> table, outcome |-> "failed"]

\* save_to_postgres(trip_metadata_df): the metrics and the committed rows
\* of table trip after it, and how it ended: "empty" and "all_skipped" (the
\* early returns), "failed" (an exception before the commit, caught and
\* logged) or "committed"; sink_ok = the sink accepts the connection
save_to_postgres(df, m, table, sink_ok) ==
    IF df = << >> THEN [metrics |-> m, table |-> table, outcome |-> "empty"]
    ELSE LET df_to_insert == NotLoaded(df, m.loaded_trip_ids)
             m1 == [m EXCEPT !.total_skipped =
                                SkippedAfter(@, df, df_to_insert)]
         IN  IF df_to_insert = << >>
             THEN [metrics |-> m1, table |-> table, outcome |-> "all_skipped"]
             ELSE IF ~sink_ok \/ CopyConflicts(df_to_insert, table)
             THEN RolledBack(m1, df_to_insert, table)
             ELSE [metrics |->
                      [m1 EXCEPT
                         !.loaded_trip_ids = @ \cup TripIds(df_to_insert),
                         !.total_loaded = @ + Len(df_to_insert)],
                   table |->
                      table \cup {df_to_insert[i] : i \in 1..Len(df_to_insert)},
                   outcome |-> "committed"]

\* process_data(batch) followed by save_to_postgres, as the callback and the
\* monitor run them: [raised, df, metrics, table, seen, outcome], df the
\* frame process_data returned
AfterSave(p, sv) ==
    [raised |-> FALSE, df |-> p.df, metrics |-> sv.metrics,
     table |-> sv.table, seen |-> p.seen, outcome |-> sv.outcome]

\* what follows process_and_validate, p its result
AfterClean(p, m, table, sink_ok) ==
    LET m1 == [m EXCEPT !.total_invalid = @ + p.invalid]
    IN  IF p.raised
        THEN [raised |-> TRUE, df |-> << >>, metrics |-> m1, table |-> table,
              seen |-> p.seen, outcome |-> "raised"]
        ELSE CHOOSE out \in
                 {AfterSave(p, sv) :
                     sv \in {save_to_postgres(p.df, m1, table, sink_ok)}} :
                 TRUE

\* the results of the cleaner and of the write are bound by sets so that
\* each is computed once
ProcessAndSave(records, m, table, sink_ok) ==
    CHOOSE out \in
        {AfterClean(p, m, table, sink_ok) :
            p \in {process_and_validate(records)}} : TRUE

----------------------------------------------------------------------------
(* Messages, threads and the state of the two pipelines.                   *)

Msgs == 1..NMsgs
\* the control loop: main() of the breadcrumb pipeline,
\* monitor_and_subscribe() of the stop-event pipeline
Main == 0
Threads == Msgs \cup {Main}
\* buffer_lock is free
NoThread == -1

Undelivered == <<"undelivered">>
\* message.data that json.loads / decode("utf-8") rejects
Garbage == <<"garbage">>
Json(record) == <<"json", record>>

VARIABLES
    pipeline,               \* the program that runs
    payload,                \* message.data of each delivered message
    settled,                \* the ack()/nack() calls made on each message
    pc,                     \* position of each thread
    batch,                  \* the local `batch` of each thread (message ids)
    frame,                  \* the local data frame of each thread (the rows
                            \* cleaned so far while its loop runs)
    exit_reason,            \* why the control loop left its loop
    batch_outcome,          \* history: how the last batch ended
    \* breadcrumb pipeline (PubSubProcessor, main)
    streaming_pull,         \* the subscription: "none", "active", "cancelled"
    buffer,                 \* processor.buffer, as message ids
    buffer_lock,            \* holder of processor.buffer_lock
    total_received,
    total_processed,
    idle_time,              \* datetime.now() - last_message_time, in seconds
    processed_combinations, \* transformer.validator.processed_combinations
    summary,                \* metadata_extractor.summary
    breadcrumb_table,       \* committed rows of the sink's breadcrumb table
    drains,                 \* history: in how many drained batches each message is
    handed,                 \* history: the messages given to batch processing
    entries_done,           \* the entries of `batch` the running loop of each
                            \* thread (of process, of build_summary, of
                            \* process_and_validate) is past
    processed_read,         \* the total_processed a thread read for += count
    \* stop-event pipeline (module state of subscriber3_stopevent.py)
    env_ok,                 \* the required environment settings are present
    config_vars,            \* config_vars, once loaded
    metrics,                \* the metrics dict; last_message_time is kept as
                            \* datetime.now() - last_message_time, in seconds
    processed_combinations_in_batch,
    streaming_pull_future,  \* the subscription: "none", "active", "cancelled"
    trip_table,             \* committed rows of the sink's trip table
    received_read,          \* the total_received a callback read for += 1
    df_to_insert,           \* the local df_to_insert of save_to_postgres
    before_batch,           \* history: the counters, the loaded ids and the
                            \* sink's rows when the last batch was taken
    summary_emitted,        \* the Pipeline Summary has been logged
    loads,                  \* number of batches given to a batch function
                            \* that runs alone
    \* the batch functions run alone
    fed,                    \* history: the input a batch function was given
    verdicts                \* history: what validate_records returned for each

shared_vars == <<payload, settled, pc, batch, frame, exit_reason,
                 batch_outcome>>
bc_vars == <<streaming_pull, buffer, buffer_lock, total_received,
             total_processed, idle_time, processed_combinations,
             summary, breadcrumb_table, drains, handed, entries_done,
             processed_read>>
se_vars == <<env_ok, config_vars, metrics, processed_combinations_in_batch,
             streaming_pull_future, trip_table, received_read,
             df_to_insert, before_batch, summary_emitted, loads>>
alone_vars == <<fed, verdicts>>
vars == <<pipeline, shared_vars, bc_vars, se_vars, alone_vars>>

\* the decoded record of message m
DataOf(m) == payload[m][2]
\* the records of a batch of message ids
RecordsOf(ids) == [i \in 1..Len(ids) |-> DataOf(ids[i])]

\* json.loads(message.data.decode("utf-8")) succeeds
Decodes(data) == data[1] = "json"

\* a lock that is never granted
LockNeverFree(lock) == FALSE

\* the lock can be taken by `with buffer_lock`
LockFree(lock) == lock = NoThread

SetPc(t, where) == pc' = [pc EXCEPT ![t] = where]

\* the local variables of the threads once thread t's call has returned
Returned(locals, t) == [locals EXCEPT ![t] = << >>]

----------------------------------------------------------------------------
(* Records the breadcrumb channel delivers.                                *)

BCBase ==
    [EVENT_NO_TRIP |-> PyInt(100), EVENT_NO_STOP |-> PyInt(7),
     OPD_DATE |-> PyStr(<<"02JAN2023", "00", "00", "00">>),
     ACT_TIME |-> PyInt(0), VEHICLE_ID |-> PyInt(3),
     GPS_LATITUDE |-> PyFloat(455), GPS_LONGITUDE |-> PyFloat(-1226),
     METERS |-> PyInt(0)]

\* r without field f
Without(r, f) == [g \in DOMAIN r \ {f} |-> r[g]]

\* the next sample of BCBase's trip, ten seconds and fifty metres later
BCLater == [BCBase EXCEPT !.ACT_TIME = PyInt(10), !.METERS = PyInt(50)]

\* the records the channel delivers: two valid samples of one trip, and
\* the later sample without EVENT_NO_STOP
BCRecords ==
    { BCBase, BCLater, Without(BCLater, "EVENT_NO_STOP") }

BCPayloads == {Garbage} \cup {Json(r) : r \in BCRecords}

----------------------------------------------------------------------------
(* Breadcrumb pipeline: src/Project_part2/subcriber.py                     *)

InitShared ==
    /\ payload = [m \in Msgs |-> Undelivered]
    /\ settled = [m \in Msgs |-> << >>]
    /\ pc = [t \in Threads |-> IF t = Main THEN "start" ELSE "idle"]
    /\ batch = [t \in Threads |-> << >>]
    /\ frame = [t \in Threads |-> << >>]
    /\ exit_reason = "none"
    /\ batch_outcome = "none"

\* PubSubProcessor.__init__
InitBCState ==
    /\ streaming_pull = "none"
    /\ buffer = << >>
    /\ buffer_lock = NoThread
    /\ total_received = 0
    /\ total_processed = 0
    /\ idle_time = 0
    /\ processed_combinations = {}
    /\ summary = << >>
    /\ breadcrumb_table = << >>
    /\ drains = [m \in Msgs |-> 0]
    /\ handed = {}
    /\ entries_done = [t \in Threads |-> 0]
    /\ processed_read = [t \in Threads |-> 0]

\* subscriber.subscribe(...) in main
BCSubscribe ==
    /\ pc[Main] = "start"
    /\ streaming_pull' = "active"
    /\ SetPc(Main, "sleep")
    /\ UNCHANGED <<payload, settled, batch, frame, exit_reason>>
    /\ UNCHANGED <<buffer, buffer_lock, total_received, total_processed,
                   idle_time, processed_combinations, summary,
                   breadcrumb_table, drains, handed>>

\* the channel hands message m to callback(), which enters process_message:
\* json.loads(message.data.decode("utf-8")); messages are numbered in the
\* order of their delivery
BCDeliver(m) ==
    /\ streaming_pull = "active"
    /\ pc[m] = "idle"
    /\ \A k \in Msgs : k < m => pc[k] # "idle"
    /\ \E data \in BCPayloads :
          /\ payload' = [payload EXCEPT ![m] = data]
          /\ SetPc(m, IF Decodes(data) THEN "lock" ELSE "nack")
    /\ UNCHANGED <<settled, batch, frame, exit_reason>>
    /\ UNCHANGED bc_vars

\* process_message: with self.buffer_lock
BCLock(m) ==
    /\ pc[m] = "lock"
    /\ LockFree(buffer_lock)
    /\ buffer_lock' = m
    /\ SetPc(m, "append")
    /\ UNCHANGED <<payload, settled, batch, frame, exit_reason>>
    /\ UNCHANGED <<streaming_pull, buffer, total_received, total_processed,
                   idle_time, processed_combinations, summary,
                   breadcrumb_table, drains, handed>>

\* an append that does not count the record
BCAppendUncounted(m) ==
    /\ pc[m] = "append"
    /\ buffer' = Append(buffer, m)
    /\ idle_time' = 0
    /\ buffer_lock' = NoThread
    /\ SetPc(m, "ack")
    /\ UNCHANGED <<payload, settled, batch, frame, exit_reason>>
    /\ UNCHANGED <<streaming_pull, total_received, total_processed,
                   processed_combinations, summary, breadcrumb_table,
                   drains, handed>>

\* process_message: the body of the with block, and the release
BCAppend(m) ==
    /\ pc[m] = "append"
    /\ buffer' = Append(buffer, m)
    /\ total_received' = total_received + 1
    /\ idle_time' = 0       \* last_message_time = datetime.now()
    /\ buffer_lock' = NoThread
    /\ SetPc(m, "ack")
    /\ UNCHANGED <<payload, settled, batch, frame, exit_reason>>
    /\ UNCHANGED <<streaming_pull, total_processed, processed_combinations,
                   summary, breadcrumb_table, drains, handed>>

\* process_message: message.ack()
BCAck(m) ==
    /\ pc[m] = "ack"
    /\ settled' = [settled EXCEPT ![m] = Append(@, "ack")]
    /\ SetPc(m, "size_check")
    /\ UNCHANGED <<payload, batch, frame, exit_reason>>
    /\ UNCHANGED bc_vars

\* process_message: the except branch, message.nack()
BCNack(m) ==
    /\ pc[m] = "nack"
    /\ settled' = [settled EXCEPT ![m] = Append(@, "nack")]
    /\ SetPc(m, "size_check")
    /\ UNCHANGED <<payload, batch, frame, exit_reason>>
    /\ UNCHANGED bc_vars

\* the BATCH_SIZE main() passes to callback() in this run
BatchSize ==
    IF pipeline = "breadcrumb_crowded" THEN CrowdedBatchSize ELSE BATCH_SIZE

\* callback: if len(processor.buffer) >= BATCH_SIZE (read without the lock)
BCSizeCheck(m) ==
    /\ pc[m] = "size_check"
    /\ SetPc(m, IF Len(buffer) >= BatchSize THEN "pb_lock" ELSE "done")
    /\ UNCHANGED <<payload, settled, batch, frame, exit_reason>>
    /\ UNCHANGED bc_vars

\* a process_batch whose return ends the control loop as well
PBReturnLeavesLoop(t) == IF t = Main THEN "finally" ELSE "done"

\* where process_batch returns to
PBReturn(t) == IF t = Main THEN "idle_check" ELSE "done"

\* the positions of process_batch after its drain: the loops of process and
\* of build_summary, save_data and the count of its rows
InProcessBatch ==
    {"pb_process", "pb_add", "pb_summary", "pb_sum_set", "pb_save", "pb_count",
     "pb_count_store"}

\* process_batch: with self.buffer_lock
PBLock(t) ==
    /\ pc[t] = "pb_lock"
    /\ LockFree(buffer_lock)
    /\ buffer_lock' = t
    /\ SetPc(t, "pb_drain")
    /\ UNCHANGED <<payload, settled, batch, frame, exit_reason>>
    /\ UNCHANGED <<streaming_pull, buffer, total_received, total_processed,
                   idle_time, processed_combinations, summary,
                   breadcrumb_table, drains, handed>>

\* a drain that copies the buffer and forgets to clear it
ClearedNothing(buf) == buf

\* the buffer after self.buffer.clear()
Cleared(buf) == << >>

\* drains with the batch `ids` counted in
Drained(count, ids) ==
    [m \in Msgs |->
        count[m] + Cardinality({i \in 1..Len(ids) : ids[i] = m})]

\* a process_batch that leaves a buffer below the size threshold alone
BelowThreshold(buf) == Len(buf) < BATCH_SIZE

\* process_batch: if not self.buffer
NothingToDrain(buf) == buf = << >>

\* process_batch: the body of the with block (return when the buffer is
\* empty, else batch = self.buffer.copy(); self.buffer.clear()), and the
\* release
PBDrain(t) ==
    /\ pc[t] = "pb_drain"
    /\ buffer_lock' = NoThread
    /\ IF NothingToDrain(buffer)
       THEN /\ SetPc(t, PBReturn(t))
            /\ UNCHANGED <<batch, buffer, drains>>
       ELSE /\ batch' = [batch EXCEPT ![t] = buffer]
            /\ buffer' = Cleared(buffer)
            /\ drains' = Drained(drains, buffer)
            /\ SetPc(t, "pb_process")
    /\ UNCHANGED <<payload, settled, frame, exit_reason>>
    /\ UNCHANGED <<streaming_pull, total_received, total_processed,
                   idle_time, processed_combinations, summary,
                   breadcrumb_table, handed>>

\* the entry build_summary makes for the record
SummaryEntry(data) == build_summary(<<data>>, << >>).summary[1]

\* self.summary[trip] = entry: a new key goes to the end of the dict, a
\* key that is there keeps its place and takes the new value
SummarySet(dict, entry) ==
    IF SummaryHas(dict, entry.trip_id)
    THEN [i \in 1..Len(dict) |->
            IF KeyVal(dict[i].trip_id) = KeyVal(entry.trip_id)
            THEN entry ELSE dict[i]]
    ELSE Append(dict, entry)

\* the record the loop of thread t is at: `entry` in process, `data` in
\* build_summary
CurrentEntry(t) == DataOf(batch[t][entries_done[t] + 1])

\* process_batch leaves its try block before save_data: an exception was
\* caught and logged, or validated_df is empty
PBLeave(t, outcome) ==
    /\ SetPc(t, PBReturn(t))
    /\ frame' = Returned(frame, t)
    /\ batch' = Returned(batch, t)
    /\ entries_done' = [entries_done EXCEPT ![t] = 0]
    /\ batch_outcome' = outcome

\* Transformation.process: the loop goes to its next entry; after the last
\* one process returns _append_speed(pd.DataFrame(processed)), or an empty
\* frame when nothing was processed
ProcessNext(t, processed) ==
    /\ IF entries_done[t] + 1 < Len(batch[t])
       THEN /\ entries_done' = [entries_done EXCEPT ![t] = @ + 1]
            /\ frame' = [frame EXCEPT ![t] = processed]
            /\ SetPc(t, "pb_process")
       ELSE /\ entries_done' = [entries_done EXCEPT ![t] = 0]
            /\ frame' = [frame EXCEPT ![t] =
                  IF processed = << >> THEN << >>
                  ELSE append_speed(processed)]
            /\ SetPc(t, "pb_summary")
    /\ UNCHANGED <<batch, batch_outcome>>

\* process_batch: transformer.process(batch), one entry of the loop:
\* validate_records(entry) up to and including the assertion of
\* _duplicates_check, key not in self.processed_combinations; no lock is
\* held.  A rejected entry is skipped; an exception that leaves
\* validate_records leaves process and is caught and logged by process_batch
PBValidate(t) ==
    /\ pc[t] = "pb_process"
    /\ LET returned ==
               validate_records(CurrentEntry(t), processed_combinations)
       IN  IF returned = "raise" THEN PBLeave(t, "raised")
           ELSE IF returned = "reject" THEN ProcessNext(t, frame[t])
           ELSE /\ SetPc(t, "pb_add")
                /\ UNCHANGED <<batch, frame, entries_done, batch_outcome>>
    /\ handed' = handed \cup {batch[t][i] : i \in 1..Len(batch[t])}
    /\ UNCHANGED <<payload, settled, exit_reason>>
    /\ UNCHANGED <<streaming_pull, buffer, buffer_lock, total_received,
                   total_processed, idle_time, processed_combinations,
                   summary, breadcrumb_table, drains>>

\* _duplicates_check: self.processed_combinations.add(key); validate_records
\* returns True and process appends the entry's row to `processed` (not
\* when _combine_date_time raises)
PBAdd(t) ==
    /\ pc[t] = "pb_add"
    /\ processed_combinations' =
          SeenAfter(CurrentEntry(t), processed_combinations)
    /\ LET ts == combine_date_time(CurrentEntry(t))
       IN  ProcessNext(t, IF ts < 0 THEN frame[t]
                          ELSE Append(frame[t],
                                      PositionOf(CurrentEntry(t), ts)))
    /\ UNCHANGED <<payload, settled, exit_reason>>
    /\ UNCHANGED <<streaming_pull, buffer, buffer_lock, total_received,
                   total_processed, idle_time, summary, breadcrumb_table,
                   drains, handed>>

\* build_summary: the loop goes to its next record; after the last one
\* build_summary returns and process_batch tests validated_df.empty
SummaryNext(t) ==
    IF entries_done[t] + 1 < Len(batch[t])
    THEN /\ entries_done' = [entries_done EXCEPT ![t] = @ + 1]
         /\ SetPc(t, "pb_summary")
         /\ UNCHANGED <<batch, frame, batch_outcome>>
    ELSE IF frame[t] = << >> THEN PBLeave(t, "empty")
    ELSE /\ entries_done' = [entries_done EXCEPT ![t] = 0]
         /\ SetPc(t, "pb_save")
         /\ UNCHANGED <<batch, frame, batch_outcome>>

\* process_batch: metadata_extractor.build_summary(batch), one record of
\* the loop: if trip not in self.summary (TypeError for an unhashable trip
\* id, caught and logged by process_batch)
PBSummaryTest(t) ==
    /\ pc[t] = "pb_summary"
    /\ LET trip == Get(CurrentEntry(t), "EVENT_NO_TRIP", PyNone)
       IN  IF ~Hashable(trip) THEN PBLeave(t, "summary_raised")
           ELSE IF SummaryHas(summary, trip) THEN SummaryNext(t)
           ELSE /\ SetPc(t, "pb_sum_set")
                /\ UNCHANGED <<batch, frame, entries_done, batch_outcome>>
    /\ UNCHANGED <<payload, settled, exit_reason>>
    /\ UNCHANGED <<streaming_pull, buffer, buffer_lock, total_received,
                   total_processed, idle_time, processed_combinations,
                   summary, breadcrumb_table, drains, handed>>

\* build_summary: self.summary[trip] = {...}
PBSummarySet(t) ==
    /\ pc[t] = "pb_sum_set"
    /\ summary' = SummarySet(summary, SummaryEntry(CurrentEntry(t)))
    /\ SummaryNext(t)
    /\ UNCHANGED <<payload, settled, exit_reason>>
    /\ UNCHANGED <<streaming_pull, buffer, buffer_lock, total_received,
                   total_processed, idle_time, processed_combinations,
                   breadcrumb_table, drains, handed>>

\* process_batch: DatabaseHandler.save_data(validated_df, trip_metadata) up
\* to connection.commit(); the sink either commits the whole copy or raises
\* before the commit, which process_batch catches and logs
PBSave(t) ==
    /\ pc[t] = "pb_save"
    /\ \E sink_ok \in BOOLEAN :
          IF sink_ok
          THEN /\ breadcrumb_table' =
                     breadcrumb_table \o BreadcrumbRows(frame[t])
               /\ batch_outcome' = "committed"
               /\ SetPc(t, "pb_count")
               /\ UNCHANGED <<batch, frame>>
          ELSE /\ UNCHANGED breadcrumb_table
               /\ batch_outcome' = "failed"
               /\ SetPc(t, PBReturn(t))
               /\ batch' = Returned(batch, t)
               /\ frame' = Returned(frame, t)
    /\ UNCHANGED <<payload, settled, exit_reason>>
    /\ UNCHANGED <<streaming_pull, buffer, buffer_lock, total_received,
                   total_processed, idle_time, processed_combinations,
                   summary, drains, handed, entries_done>>

\* process_batch: save_data has returned len(breadcrumb_data);
\* self.total_processed += count reads the counter; no lock is held
PBCount(t) ==
    /\ pc[t] = "pb_count"
    /\ processed_read' = [processed_read EXCEPT ![t] = total_processed]
    /\ SetPc(t, "pb_count_store")
    /\ UNCHANGED <<payload, settled, batch, frame, exit_reason, batch_outcome>>
    /\ UNCHANGED <<streaming_pull, buffer, buffer_lock, total_received,
                   total_processed, idle_time, processed_combinations,
                   summary, breadcrumb_table, drains, handed, entries_done>>

\* process_batch: self.total_processed += count stores the sum, and
\* process_batch returns
PBCountStore(t) ==
    /\ pc[t] = "pb_count_store"
    /\ total_processed' = processed_read[t] + Len(frame[t])
    /\ SetPc(t, PBReturn(t))
    /\ batch' = Returned(batch, t)
    /\ frame' = Returned(frame, t)
    /\ UNCHANGED <<payload, settled, exit_reason, batch_outcome>>
    /\ UNCHANGED <<streaming_pull, buffer, buffer_lock, total_received,
                   idle_time, processed_combinations, summary,
                   breadcrumb_table, drains, handed, entries_done,
                   processed_read>>

\* main: the first time.sleep(5) of the loop, then the call of
\* processor.process_batch(); the clock advances while the loop sleeps
BCSleep ==
    /\ pc[Main] = "sleep"
    /\ idle_time' = idle_time + SLEEP_SECONDS
    /\ SetPc(Main, "pb_lock")
    /\ UNCHANGED <<payload, settled, batch, frame, exit_reason>>
    /\ UNCHANGED <<streaming_pull, buffer, buffer_lock, total_received,
                   total_processed, processed_combinations, summary,
                   breadcrumb_table, drains, handed>>

\* main: the idle-timeout check; when the timeout has not passed the loop
\* goes round: time.sleep(5), then the call of processor.process_batch()
BCIdleCheck ==
    /\ pc[Main] = "idle_check"
    /\ IF idle_time > IDLE_TIMEOUT
       THEN /\ SetPc(Main, "finally")
            /\ exit_reason' = "idle"
            /\ UNCHANGED idle_time
       ELSE /\ SetPc(Main, "pb_lock")
            /\ idle_time' = idle_time + SLEEP_SECONDS
            /\ UNCHANGED exit_reason
    /\ UNCHANGED <<payload, settled, batch, frame>>
    /\ UNCHANGED <<streaming_pull, buffer, buffer_lock, total_received,
                   total_processed, processed_combinations, summary,
                   breadcrumb_table, drains, handed>>

\* main: KeyboardInterrupt inside the try block (subscribe included), caught
\* by `except KeyboardInterrupt`; a `with` block it leaves releases the
\* lock, and the locals of a process_batch it leaves are gone
BCInterrupt ==
    /\ pc[Main] \in {"start", "sleep", "pb_lock", "pb_drain", "idle_check"}
                        \cup InProcessBatch
    /\ buffer_lock' = IF buffer_lock = Main THEN NoThread ELSE buffer_lock
    /\ SetPc(Main, "finally")
    /\ exit_reason' = "interrupt"
    /\ batch' = Returned(batch, Main)
    /\ frame' = Returned(frame, Main)
    /\ entries_done' = [entries_done EXCEPT ![Main] = 0]
    /\ UNCHANGED <<payload, settled>>
    /\ UNCHANGED <<streaming_pull, buffer, total_received, total_processed,
                   idle_time, processed_combinations, summary,
                   breadcrumb_table, drains, handed>>

\* main: KeyboardInterrupt inside the finally block: nothing catches it and
\* it leaves main, the rest of the block not run
BCInterruptFinally ==
    /\ pc[Main] \in {"finally", "close"}
    /\ SetPc(Main, "interrupted")
    /\ UNCHANGED <<payload, settled, batch, frame, exit_reason>>
    /\ UNCHANGED bc_vars

\* main: finally: streaming_pull.cancel(); when the interrupt came before
\* subscribe had returned the name is unbound, and UnboundLocalError leaves
\* main
BCFinally ==
    /\ pc[Main] = "finally"
    /\ IF streaming_pull = "none"
       THEN SetPc(Main, "crashed") /\ UNCHANGED streaming_pull
       ELSE SetPc(Main, "close") /\ streaming_pull' = "cancelled"
    /\ UNCHANGED <<payload, settled, batch, frame, exit_reason>>
    /\ UNCHANGED <<buffer, buffer_lock, total_received, total_processed,
                   idle_time, processed_combinations, summary,
                   breadcrumb_table, drains, handed>>

\* main: finally: subscriber.close(); the totals are logged and main returns
BCClose ==
    /\ pc[Main] = "close"
    /\ SetPc(Main, "stopped")
    /\ UNCHANGED <<payload, settled, batch, frame, exit_reason>>
    /\ UNCHANGED bc_vars

\* what only the steps of process_batch after the drain change
batch_locals == <<batch_outcome, entries_done, processed_read>>

BCStep ==
    \/ BCSubscribe /\ UNCHANGED batch_locals
    \/ \E m \in Msgs : BCDeliver(m) /\ UNCHANGED batch_outcome
    \/ \E m \in Msgs : BCLock(m) /\ UNCHANGED batch_locals
    \/ \E m \in Msgs : BCAppend(m) /\ UNCHANGED batch_locals
    \/ \E m \in Msgs : BCAck(m) /\ UNCHANGED batch_outcome
    \/ \E m \in Msgs : BCNack(m) /\ UNCHANGED batch_outcome
    \/ \E m \in Msgs : BCSizeCheck(m) /\ UNCHANGED batch_outcome
    \/ \E t \in Threads : PBLock(t) /\ UNCHANGED batch_locals
    \/ \E t \in Threads : PBDrain(t) /\ UNCHANGED batch_locals
    \/ \E t \in Threads : PBValidate(t) /\ UNCHANGED processed_read
    \/ \E t \in Threads : PBAdd(t) /\ UNCHANGED processed_read
    \/ \E t \in Threads : PBSummaryTest(t) /\ UNCHANGED processed_read
    \/ \E t \in Threads : PBSummarySet(t) /\ UNCHANGED processed_read
    \/ \E t \in Threads : PBSave(t) /\ UNCHANGED processed_read
    \/ \E t \in Threads : PBCount(t)
    \/ \E t \in Threads : PBCountStore(t)
    \/ BCSleep /\ UNCHANGED batch_locals
    \/ BCIdleCheck /\ UNCHANGED batch_locals
    \/ BCInterrupt /\ UNCHANGED <<batch_outcome, processed_read>>
    \/ BCInterruptFinally /\ UNCHANGED batch_outcome
    \/ BCFinally /\ UNCHANGED batch_locals
    \/ BCClose /\ UNCHANGED batch_outcome

\* the runs of the breadcrumb pipeline: BATCH_SIZE as large as the number
\* of messages, and BATCH_SIZE below it
BCRuns == {"breadcrumb", "breadcrumb_crowded"}

NextBC ==
    /\ pipeline \in BCRuns
    /\ BCStep
    /\ UNCHANGED <<pipeline, se_vars, alone_vars>>


----------------------------------------------------------------------------
(* Stop-event pipeline: src/Project_part3/subscriber3_stopevent.py         *)

SEBase ==
    [trip_id |-> PyInt(55), route_number |-> PyInt(10),
     vehicle_id |-> PyInt(9), service_key |-> PyStr(<<"W">>),
     direction |-> PyInt(0)]

\* a valid record, a valid record of another trip, a record with a
\* non-positive trip_id (invalid), a record whose trip_id is a JSON array
SERecords ==
    { SEBase,
      [SEBase EXCEPT !.trip_id = PyInt(56)],
      [SEBase EXCEPT !.trip_id = PyInt(0)],
      [SEBase EXCEPT !.trip_id = PyList] }

\* the payloads of the messages the channel delivers: an undecodable one,
\* and the records of one trip (a second trip arrives in the loader's batches)
SEPayloads ==
    {Garbage} \cup
    {Json(r) : r \in {q \in SERecords : q.trip_id # PyInt(56)}}

\* what before_batch keeps of the metrics m and of the sink's rows
BeforeBatch(m, table) ==
    [total_loaded |-> m.total_loaded, total_skipped |-> m.total_skipped,
     total_invalid |-> m.total_invalid,
     loaded_trip_ids |-> m.loaded_trip_ids, table |-> table]

\* the module-level metrics dict and the other module state
InitSEState ==
    /\ config_vars = [batch_size |-> 0]
    /\ metrics = [total_received |-> 0, total_loaded |-> 0,
                  total_skipped |-> 0, total_invalid |-> 0,
                  last_message_time |-> 0, loaded_trip_ids |-> {},
                  message_buffer |-> << >>, buffer_lock |-> NoThread]
    /\ processed_combinations_in_batch = {}
    /\ streaming_pull_future = "none"
    /\ trip_table = {}
    /\ received_read = [m \in Msgs |-> 0]
    /\ df_to_insert = [t \in Threads |-> << >>]
    /\ before_batch = BeforeBatch(metrics, {})
    /\ summary_emitted = FALSE
    /\ loads = 0

se_shared_frame == <<streaming_pull, buffer, buffer_lock,
                     total_received, total_processed, idle_time,
                     processed_combinations, summary, breadcrumb_table,
                     processed_read>>

se_batch_locals == <<df_to_insert, before_batch>>

\* __main__: load_environment_variables(); a missing setting raises
\* ValueError, which the block logs as a configuration error before it ends
SELoadEnv ==
    /\ pc[Main] = "start"
    /\ IF env_ok
       THEN /\ \E n \in 1..MaxBatchSize : config_vars' = [batch_size |-> n]
            /\ SetPc(Main, "subscribe")
            /\ UNCHANGED exit_reason
       ELSE /\ SetPc(Main, "stopped")
            /\ exit_reason' = "config_error"
            /\ UNCHANGED config_vars
    /\ UNCHANGED <<payload, settled, batch, drains, handed>>
    /\ UNCHANGED <<env_ok, metrics, processed_combinations_in_batch,
                   streaming_pull_future, trip_table, received_read,
                   summary_emitted, loads>>
    /\ UNCHANGED se_batch_locals

\* monitor_and_subscribe: SubscriberClient() and subscriber.subscribe(...);
\* an exception of either reaches the __main__ block, whose handler logs
\* the Pipeline Summary
SESubscribe ==
    /\ pc[Main] = "subscribe"
    /\ \E client_ok \in BOOLEAN :
          IF client_ok
          THEN /\ streaming_pull_future' = "active"
               /\ SetPc(Main, "idle_check")
               /\ UNCHANGED <<exit_reason, summary_emitted>>
          ELSE /\ SetPc(Main, "stopped")
               /\ exit_reason' = "unhandled_error"
               /\ summary_emitted' = TRUE
               /\ UNCHANGED streaming_pull_future
    /\ UNCHANGED <<payload, settled, batch, drains, handed>>
    /\ UNCHANGED <<env_ok, config_vars, metrics,
                   processed_combinations_in_batch, trip_table,
                   received_read, loads>>
    /\ UNCHANGED se_batch_locals

\* the channel hands message m to pubsub_callback: json.loads(
\* message.data.decode("utf-8")) and, when it has not raised, the read of
\* metrics["total_received"] for += 1; messages are numbered in the order of
\* their delivery
SEDeliver(m) ==
    /\ streaming_pull_future = "active"
    /\ pc[m] = "idle"
    /\ \A k \in Msgs : k < m => pc[k] # "idle"
    /\ \E data \in SEPayloads :
          /\ payload' = [payload EXCEPT ![m] = data]
          /\ SetPc(m, IF Decodes(data) THEN "count" ELSE "nack")
          /\ received_read' =
                IF Decodes(data)
                THEN [received_read EXCEPT ![m] = metrics.total_received]
                ELSE received_read
    /\ UNCHANGED <<settled, batch, exit_reason, drains, handed>>
    /\ UNCHANGED <<env_ok, config_vars, metrics,
                   processed_combinations_in_batch, streaming_pull_future,
                   trip_table, summary_emitted, loads>>
    /\ UNCHANGED se_batch_locals

\* pubsub_callback: the store of metrics["total_received"] += 1 and
\* metrics["last_message_time"] = datetime.now(), outside the lock
SECount(m) ==
    /\ pc[m] = "count"
    /\ metrics' = [metrics EXCEPT !.total_received = received_read[m] + 1,
                                  !.last_message_time = 0]
    /\ received_read' = [received_read EXCEPT ![m] = 0]
    /\ SetPc(m, "lock")
    /\ UNCHANGED <<payload, settled, batch, exit_reason, drains, handed>>
    /\ UNCHANGED <<env_ok, config_vars, processed_combinations_in_batch,
                   streaming_pull_future, trip_table, summary_emitted, loads>>
    /\ UNCHANGED se_batch_locals

\* with metrics["buffer_lock"], in pubsub_callback and in the monitor
SELock(t) ==
    /\ pc[t] = "lock"
    /\ LockFree(metrics.buffer_lock)
    /\ metrics' = [metrics EXCEPT !.buffer_lock = t]
    /\ SetPc(t, IF t = Main THEN "final_drain" ELSE "append")
    /\ UNCHANGED <<payload, settled, batch, exit_reason, drains, handed>>
    /\ UNCHANGED <<env_ok, config_vars, processed_combinations_in_batch,
                   streaming_pull_future, trip_table, received_read,
                   summary_emitted, loads>>
    /\ UNCHANGED se_batch_locals

\* pubsub_callback: message_buffer.append(data); when the buffer has
\* batch_size records, batch = message_buffer[:]; message_buffer.clear()
\* and the callback goes on, inside the lock, to process the batch
SEAppend(m) ==
    /\ pc[m] = "append"
    /\ LET appended == Append(metrics.message_buffer, m)
       IN  IF Len(appended) >= config_vars.batch_size
           THEN /\ batch' = [batch EXCEPT ![m] = appended]
                /\ metrics' = [metrics EXCEPT !.message_buffer = Cleared(appended)]
                /\ drains' = Drained(drains, appended)
                /\ before_batch' = BeforeBatch(metrics, trip_table)
                /\ SetPc(m, "process")
           ELSE /\ metrics' = [metrics EXCEPT !.message_buffer = appended,
                                              !.buffer_lock = NoThread]
                /\ SetPc(m, "ack")
                /\ UNCHANGED <<batch, drains, before_batch>>
    /\ UNCHANGED <<payload, settled, exit_reason, handed>>
    /\ UNCHANGED <<env_ok, config_vars, processed_combinations_in_batch,
                   streaming_pull_future, trip_table, received_read,
                   summary_emitted, loads, df_to_insert>>

\* where a thread goes after its batch: the callback to message.ack(), or
\* to message.nack() when process_data raised; the monitor leaves the loop
\* (an exception is caught by its `except Exception`)
AfterBatch(t, raised) ==
    IF t = Main THEN "result" ELSE IF raised THEN "nack" ELSE "ack"

\* the positions of a thread inside process_data and save_to_postgres, all
\* of them inside `with metrics["buffer_lock"]`: the loop of
\* process_and_validate, the filter by loaded_trip_ids, the copy and commit,
\* loaded_trip_ids.update and total_loaded +=
SEInBatch == {"process", "filter", "write", "mark", "loaded"}

\* process_and_validate: one pass of `for record in records`, on the record
\* after those the loop is past; the first pass follows the clear() of the
\* dedup set.  An exception of _is_valid_record leaves process_data and the
\* with block
SEClean(t) ==
    /\ pc[t] = "process"
    /\ LET seen == IF entries_done[t] = 0 THEN {}
                   ELSE processed_combinations_in_batch
           p == CleanLoop(<<DataOf(batch[t][entries_done[t] + 1])>>,
                          seen, frame[t], 0)
           last == entries_done[t] + 1 = Len(batch[t])
       IN  /\ processed_combinations_in_batch' = p.seen
           /\ frame' = [frame EXCEPT ![t] = p.df]
           /\ IF p.raised
              THEN /\ metrics' = [metrics EXCEPT !.buffer_lock = NoThread]
                   /\ batch_outcome' = "raised"
                   /\ entries_done' = [entries_done EXCEPT ![t] = 0]
                   /\ SetPc(t, AfterBatch(t, TRUE))
              ELSE /\ metrics' = [metrics EXCEPT !.total_invalid = @ + p.invalid]
                   /\ entries_done' =
                         [entries_done EXCEPT ![t] = IF last THEN 0 ELSE @ + 1]
                   /\ SetPc(t, IF last THEN "filter" ELSE "process")
                   /\ UNCHANGED batch_outcome
    /\ handed' = handed \cup {batch[t][i] : i \in 1..Len(batch[t])}
    /\ UNCHANGED <<payload, settled, batch, exit_reason, drains>>
    /\ UNCHANGED <<env_ok, config_vars, streaming_pull_future, trip_table,
                   received_read, summary_emitted, loads>>
    /\ UNCHANGED se_batch_locals

\* save_to_postgres, up to the connection: the return on an empty frame,
\* the filter by loaded_trip_ids, total_skipped += the rows filtered out,
\* and the return when no row is left
SEFilter(t) ==
    /\ pc[t] = "filter"
    /\ IF frame[t] = << >>
       THEN /\ metrics' = [metrics EXCEPT !.buffer_lock = NoThread]
            /\ batch_outcome' = "empty"
            /\ SetPc(t, AfterBatch(t, FALSE))
            /\ UNCHANGED df_to_insert
       ELSE LET kept == NotLoaded(frame[t], metrics.loaded_trip_ids)
                skipped == SkippedAfter(metrics.total_skipped, frame[t], kept)
            IN  IF kept = << >>
                THEN /\ metrics' = [metrics EXCEPT
                                       !.total_skipped = skipped,
                                       !.buffer_lock = NoThread]
                     /\ batch_outcome' = "all_skipped"
                     /\ SetPc(t, AfterBatch(t, FALSE))
                     /\ UNCHANGED df_to_insert
                ELSE /\ metrics' = [metrics EXCEPT !.total_skipped = skipped]
                     /\ df_to_insert' = [df_to_insert EXCEPT ![t] = kept]
                     /\ SetPc(t, "write")
                     /\ UNCHANGED batch_outcome
    /\ UNCHANGED <<payload, settled, batch, frame, exit_reason, drains, handed>>
    /\ UNCHANGED <<env_ok, config_vars, processed_combinations_in_batch,
                   streaming_pull_future, trip_table, received_read,
                   summary_emitted, loads, entries_done, before_batch>>

\* save_to_postgres: psycopg2.connect, copy_from and connection.commit();
\* an exception of any of them is caught and logged, nothing is committed
\* and the function returns
SEWrite(t) ==
    /\ pc[t] = "write"
    /\ \E sink_ok \in BOOLEAN :
          IF ~sink_ok \/ CopyConflicts(df_to_insert[t], trip_table)
          THEN LET r == RolledBack(metrics, df_to_insert[t], trip_table)
               IN  /\ metrics' = [r.metrics EXCEPT !.buffer_lock = NoThread]
                   /\ trip_table' = r.table
                   /\ batch_outcome' = r.outcome
                   /\ df_to_insert' = Returned(df_to_insert, t)
                   /\ SetPc(t, AfterBatch(t, FALSE))
          ELSE /\ trip_table' =
                     trip_table \cup
                        {df_to_insert[t][i] : i \in 1..Len(df_to_insert[t])}
               /\ batch_outcome' = "committed"
               /\ SetPc(t, "mark")
               /\ UNCHANGED <<metrics, df_to_insert>>
    /\ UNCHANGED <<payload, settled, batch, frame, exit_reason, drains, handed>>
    /\ UNCHANGED <<env_ok, config_vars, processed_combinations_in_batch,
                   streaming_pull_future, received_read, summary_emitted,
                   loads, entries_done, before_batch>>

\* save_to_postgres, after the commit:
\* metrics["loaded_trip_ids"].update(df_to_insert["trip_id"].tolist())
SEMark(t) ==
    /\ pc[t] = "mark"
    /\ metrics' = [metrics EXCEPT
                      !.loaded_trip_ids = @ \cup TripIds(df_to_insert[t])]
    /\ SetPc(t, "loaded")
    /\ UNCHANGED <<payload, settled, batch, frame, exit_reason, batch_outcome,
                   drains, handed>>
    /\ UNCHANGED <<env_ok, config_vars, processed_combinations_in_batch,
                   streaming_pull_future, trip_table, received_read,
                   summary_emitted, loads, entries_done>>
    /\ UNCHANGED se_batch_locals

\* save_to_postgres: metrics["total_loaded"] += len(df_to_insert), the
\* return and the end of the with block
SELoaded(t) ==
    /\ pc[t] = "loaded"
    /\ metrics' = [metrics EXCEPT
                      !.total_loaded = @ + Len(df_to_insert[t]),
                      !.buffer_lock = NoThread]
    /\ df_to_insert' = Returned(df_to_insert, t)
    /\ SetPc(t, AfterBatch(t, FALSE))
    /\ UNCHANGED <<payload, settled, batch, frame, exit_reason, batch_outcome,
                   drains, handed>>
    /\ UNCHANGED <<env_ok, config_vars, processed_combinations_in_batch,
                   streaming_pull_future, trip_table, received_read,
                   summary_emitted, loads, entries_done, before_batch>>

\* pubsub_callback: message.ack()
SEAck(m) ==
    /\ pc[m] = "ack"
    /\ settled' = [settled EXCEPT ![m] = Append(@, "ack")]
    /\ SetPc(m, "done")
    /\ batch' = Returned(batch, m)
    /\ frame' = Returned(frame, m)
    /\ UNCHANGED <<payload, exit_reason, drains, handed>>
    /\ UNCHANGED se_vars

\* pubsub_callback: message.nack() of either except branch
SENack(m) ==
    /\ pc[m] = "nack"
    /\ settled' = [settled EXCEPT ![m] = Append(@, "nack")]
    /\ SetPc(m, "done")
    /\ batch' = Returned(batch, m)
    /\ frame' = Returned(frame, m)
    /\ UNCHANGED <<payload, exit_reason, drains, handed>>
    /\ UNCHANGED se_vars

\* monitor_and_subscribe: the idle-timeout check of the loop; when the
\* timeout has not passed, time.sleep(5): the clock advances
SEIdleCheck ==
    /\ pc[Main] = "idle_check"
    /\ IF metrics.last_message_time > IDLE_TIMEOUT
       THEN /\ SetPc(Main, "cancel")
            /\ exit_reason' = "idle"
            /\ UNCHANGED metrics
       ELSE /\ metrics' = [metrics EXCEPT
                              !.last_message_time = @ + MONITOR_SLEEP_SECONDS]
            /\ UNCHANGED <<pc, exit_reason>>
    /\ UNCHANGED <<payload, settled, batch, drains, handed>>
    /\ UNCHANGED <<env_ok, config_vars, processed_combinations_in_batch,
                   streaming_pull_future, trip_table, received_read,
                   summary_emitted, loads>>
    /\ UNCHANGED se_batch_locals

\* monitor_and_subscribe: streaming_pull_future.cancel()
SECancel ==
    /\ pc[Main] = "cancel"
    /\ streaming_pull_future' = "cancelled"
    /\ SetPc(Main, "lock")
    /\ UNCHANGED <<payload, settled, batch, exit_reason, drains, handed>>
    /\ UNCHANGED <<env_ok, config_vars, metrics,
                   processed_combinations_in_batch, trip_table,
                   received_read, summary_emitted, loads>>
    /\ UNCHANGED se_batch_locals

\* monitor_and_subscribe: if metrics["message_buffer"]: remaining_batch =
\* message_buffer[:]; message_buffer.clear()
SEFinalDrain ==
    /\ pc[Main] = "final_drain"
    /\ IF metrics.message_buffer = << >>
       THEN /\ metrics' = [metrics EXCEPT !.buffer_lock = NoThread]
            /\ SetPc(Main, "result")
            /\ UNCHANGED <<batch, drains, before_batch>>
       ELSE /\ batch' = [batch EXCEPT ![Main] = metrics.message_buffer]
            /\ metrics' = [metrics EXCEPT
                              !.message_buffer = Cleared(metrics.message_buffer)]
            /\ drains' = Drained(drains, metrics.message_buffer)
            /\ before_batch' = BeforeBatch(metrics, trip_table)
            /\ SetPc(Main, "process")
    /\ UNCHANGED <<payload, settled, exit_reason, handed>>
    /\ UNCHANGED <<env_ok, config_vars, processed_combinations_in_batch,
                   streaming_pull_future, trip_table, received_read,
                   summary_emitted, loads, df_to_insert>>

\* monitor_and_subscribe: finally: streaming_pull_future.result(timeout=10);
\* the function returns, its locals with it, and the __main__ block ends
SEResult ==
    /\ pc[Main] = "result"
    /\ SetPc(Main, "stopped")
    /\ batch' = Returned(batch, Main)
    /\ frame' = Returned(frame, Main)
    /\ UNCHANGED <<payload, settled, exit_reason, drains, handed>>
    /\ UNCHANGED se_vars

SEStep ==
    \/ SELoadEnv /\ UNCHANGED <<batch_outcome, frame, entries_done>>
    \/ SESubscribe /\ UNCHANGED <<batch_outcome, frame, entries_done>>
    \/ \E m \in Msgs :
          SEDeliver(m) /\ UNCHANGED <<batch_outcome, frame, entries_done>>
    \/ \E m \in Msgs :
          SECount(m) /\ UNCHANGED <<batch_outcome, frame, entries_done>>
    \/ \E t \in Threads :
          SELock(t) /\ UNCHANGED <<batch_outcome, frame, entries_done>>
    \/ \E m \in Msgs :
          SEAppend(m) /\ UNCHANGED <<batch_outcome, frame, entries_done>>
    \/ \E t \in Threads : SEClean(t)
    \/ \E t \in Threads : SEFilter(t)
    \/ \E t \in Threads : SEWrite(t)
    \/ \E t \in Threads : SEMark(t)
    \/ \E t \in Threads : SELoaded(t)
    \/ \E m \in Msgs : SEAck(m) /\ UNCHANGED <<batch_outcome, entries_done>>
    \/ \E m \in Msgs : SENack(m) /\ UNCHANGED <<batch_outcome, entries_done>>
    \/ SEIdleCheck /\ UNCHANGED <<batch_outcome, frame, entries_done>>
    \/ SECancel /\ UNCHANGED <<batch_outcome, frame, entries_done>>
    \/ SEFinalDrain /\ UNCHANGED <<batch_outcome, frame, entries_done>>
    \/ SEResult /\ UNCHANGED <<batch_outcome, entries_done>>

NextSE ==
    /\ pipeline = "stop_event"
    /\ SEStep
    /\ UNCHANGED <<pipeline, se_shared_frame, alone_vars>>

----------------------------------------------------------------------------
(* The loader alone: pipeline_handler.process_data and save_to_postgres    *)
(* run on one batch after another, as the buffer lock serialises them in   *)
(* the pipeline.  Every batch has batch_size records; a shorter one is the *)
(* final batch.                                                            *)

\* one batch of records from `inputs`, with the sink up or down as `sinks`
\* allows
Load(inputs, sinks) ==
    /\ loads < MaxLoads
    /\ \E n \in 1..config_vars.batch_size :
       \E records \in [1..n -> inputs] :
       \E sink_ok \in sinks :
          LET r == ProcessAndSave(records, metrics, trip_table, sink_ok)
          IN  /\ metrics' = r.metrics
              /\ trip_table' = r.table
              /\ processed_combinations_in_batch' = r.seen
              /\ batch_outcome' = r.outcome
              /\ frame' = [frame EXCEPT ![Main] = r.df]
              /\ fed' = records
              /\ loads' = IF n < config_vars.batch_size THEN MaxLoads
                          ELSE loads + 1
    /\ before_batch' = BeforeBatch(metrics, trip_table)
    /\ UNCHANGED <<payload, settled, pc, batch, exit_reason, drains, handed>>
    /\ UNCHANGED <<env_ok, config_vars, streaming_pull_future, received_read,
                   summary_emitted, verdicts, df_to_insert, entries_done>>

LoadBatch == Load(SERecords, BOOLEAN)

NextLoad ==
    pipeline = "loader" /\ LoadBatch /\ UNCHANGED <<pipeline, se_shared_frame>>

\* a record of SEBase's trip reported by another vehicle
SEOtherVehicle == [SEBase EXCEPT !.vehicle_id = PyInt(8)]

\* the loader with a sink that accepts every connection
LoadBatchSinkUp == Load(SERecords \cup {SEOtherVehicle}, {TRUE})

NextSinkUp ==
    /\ pipeline = "loader_sink_up"
    /\ LoadBatchSinkUp
    /\ UNCHANGED <<pipeline, se_shared_frame>>

----------------------------------------------------------------------------
(* The breadcrumb batch functions alone: the body of process_batch after   *)
(* the drain, on batches given directly.                                   *)

\* what validate_records returns for each record of raw_data in turn, up to
\* and including the first call an exception leaves
RECURSIVE Verdicts(_, _)
Verdicts(raw_data, seen) ==
    IF raw_data = << >> THEN << >>
    ELSE LET returned == validate_records(Head(raw_data), seen)
         IN  IF returned = "raise" THEN << returned >>
             ELSE << returned >> \o
                  Verdicts(Tail(raw_data), SeenAfter(Head(raw_data), seen))

\* BCBase's sample reported again from another position: the same DedupKey
BCSameKey == [BCBase EXCEPT !.GPS_LATITUDE = PyFloat(456)]

\* a sample of BCBase's trip from another vehicle, with a route
BCRerouted ==
    [BCBase EXCEPT !.VEHICLE_ID = PyInt(4)] @@ [ROUTE_ID |-> PyInt(5)]

\* the only sample of trip 200, without VEHICLE_ID
BCNoVehicle ==
    Without([BCBase EXCEPT !.EVENT_NO_TRIP = PyInt(200)], "VEHICLE_ID")

\* the runs of process_batch alone: one on records that share and differ
\* in their DedupKey, one on records that share and differ in their trip
FeedRuns == {"process_batch_keys", "process_batch_trips"}

FeedRecords ==
    IF pipeline = "process_batch_keys" THEN {BCBase, BCSameKey, BCLater}
    ELSE {BCBase, BCRerouted, BCNoVehicle}

\* process_batch on a batch of 1..MaxBatchSize records of `inputs`, at most
\* `feeds` times, with the sink up or down as `sinks` allows
FeedBatch(inputs, feeds, sinks) ==
    /\ loads < feeds
    /\ \E n \in 1..MaxBatchSize :
       \E records \in [1..n -> inputs] :
       \E sink_ok \in sinks :
          LET p == process(records, processed_combinations)
              s == build_summary(records, summary)
          IN  /\ processed_combinations' = p.seen
              /\ summary' = IF p.raised THEN summary ELSE s.summary
              /\ fed' = records
              /\ verdicts' = Verdicts(records, processed_combinations)
              /\ frame' = [frame EXCEPT ![Main] = p.df]
              /\ IF p.raised \/ s.raised \/ p.df = << >>
                 THEN /\ batch_outcome' =
                            IF p.raised THEN "raised"
                            ELSE IF s.raised THEN "summary_raised"
                            ELSE "empty"
                      /\ UNCHANGED <<breadcrumb_table, total_processed>>
                 ELSE IF sink_ok
                 THEN /\ breadcrumb_table' =
                            breadcrumb_table \o BreadcrumbRows(p.df)
                      /\ total_processed' = total_processed + Len(p.df)
                      /\ batch_outcome' = "committed"
                 ELSE /\ UNCHANGED <<breadcrumb_table, total_processed>>
                      /\ batch_outcome' = "failed"
    /\ loads' = loads + 1
    /\ UNCHANGED <<payload, settled, pc, batch, exit_reason>>
    /\ UNCHANGED <<streaming_pull, buffer, buffer_lock, total_received,
                   idle_time, drains, handed, entries_done,
                   processed_read>>
    /\ UNCHANGED <<env_ok, config_vars, metrics,
                   processed_combinations_in_batch, streaming_pull_future,
                   trip_table, received_read, summary_emitted,
                   df_to_insert, before_batch>>

\* successive batches, the sink up
NextFeed ==
    /\ pipeline \in FeedRuns
    /\ FeedBatch(FeedRecords, MaxLoads, {TRUE})
    /\ UNCHANGED pipeline

\* rows of `processed`: samples of two trips at 0 s, 10 s and 30 s with the
\* odometer at 0 m, 50 m and 120 m (tenths)
PositionRows ==
    {[timestamp |-> ts, latitude |-> BCBase.GPS_LATITUDE,
      longitude |-> BCBase.GPS_LONGITUDE, trip_id |-> trip, meters |-> m] :
        trip \in {100, 200}, ts \in {0, 100, 300}, m \in {0, 500, 1200}}

\* Transformation._append_speed(df) on the frame drawn at the start
AppendSpeed ==
    /\ loads = 0
    /\ frame' = [frame EXCEPT ![Main] = append_speed(fed)]
    /\ loads' = 1
    /\ UNCHANGED <<payload, settled, pc, batch, exit_reason, batch_outcome>>
    /\ UNCHANGED <<bc_vars, alone_vars>>
    /\ UNCHANGED <<env_ok, config_vars, metrics,
                   processed_combinations_in_batch, streaming_pull_future,
                   trip_table, received_read, summary_emitted,
                   df_to_insert, before_batch>>

NextSpeed == pipeline = "append_speed" /\ AppendSpeed /\ UNCHANGED pipeline

\* latitudes and longitudes on, next to and far from the limits of
\* _gps_validator
Latitudes ==
    {PyFloat(451), PyFloat(452), PyFloat(457), PyFloat(458), PyFloat(5)}
Longitudes ==
    {PyFloat(-1241), PyFloat(-1240), PyFloat(-1220), PyFloat(-1219),
     PyFloat(5)}

\* the two samples of BCBase's trip reported from each of those positions
GpsRecords ==
    {[r EXCEPT !.GPS_LATITUDE = lat, !.GPS_LONGITUDE = lon] :
        r \in {BCBase, BCLater}, lat \in Latitudes, lon \in Longitudes}

\* process_batch on one batch of such records
NextGps ==
    /\ pipeline = "process_batch_gps"
    /\ FeedBatch(GpsRecords, 1, BOOLEAN)
    /\ UNCHANGED pipeline

\* BCBase's sample reported from outside the geofence with a null SPEED:
\* the GPS check fails, and the speed check after it would raise
BCOffMapNullSpeed ==
    [BCBase EXCEPT !.GPS_LATITUDE = PyFloat(458)] @@ [SPEED |-> PyNone]

\* a sample with a negative ACT_TIME and no EVENT_NO_STOP: the time check
\* fails, and the duplicate check after it would raise
BCNegativeTimeNoStop ==
    Without([BCBase EXCEPT !.ACT_TIME = PyInt(-1)], "EVENT_NO_STOP")

\* two valid samples, a repeat of the first, and records that fail one
\* check and would leave a later one differently
OrderRecords ==
    {BCBase, BCSameKey, BCLater, BCOffMapNullSpeed, BCNegativeTimeNoStop}

\* successive batches of records that tell the order of the checks
NextOrder ==
    /\ pipeline = "process_batch_order"
    /\ FeedBatch(OrderRecords, MaxLoads, {TRUE})
    /\ UNCHANGED pipeline

\* the samples of trip 200 five seconds after those of BCBase's trip
BCOtherTrip ==
    [BCBase EXCEPT !.EVENT_NO_TRIP = PyInt(200), !.ACT_TIME = PyInt(5),
                   !.METERS = PyInt(20)]
BCOtherTripLater ==
    [BCLater EXCEPT !.EVENT_NO_TRIP = PyInt(200), !.ACT_TIME = PyInt(15),
                    !.METERS = PyInt(90)]

\* successive batches of the samples of two trips, the sink up
NextTrips ==
    /\ pipeline = "process_batch_speed"
    /\ FeedBatch({BCBase, BCLater, BCOtherTrip, BCOtherTripLater},
                 MaxLoads, {TRUE})
    /\ UNCHANGED pipeline

\* successive batches of the same few records (two samples of a trip and
\* the first of them with another position), the sink up or down
NextRedelivery ==
    /\ pipeline = "process_batch_redelivery"
    /\ FeedBatch({BCBase, BCSameKey, BCLater}, MaxLoads, BOOLEAN)
    /\ UNCHANGED pipeline

----------------------------------------------------------------------------
(* Two calls of process_batch at once: the steps of _duplicates_check and  *)
(* of build_summary on the shared validator and the shared summary, each   *)
(* delivery thread holding a drained batch of its own record.              *)

\* BCBase's sample from another position and with a route: the same
\* DedupKey and trip, another summary entry
BCSameKeyRouted == BCSameKey @@ [ROUTE_ID |-> PyInt(5)]

RaceRecords == {BCBase, BCSameKeyRouted, BCLater}

race_frame == <<payload, settled, batch, exit_reason, batch_outcome,
                streaming_pull, buffer, buffer_lock, total_received,
                total_processed, idle_time, breadcrumb_table, drains,
                handed, entries_done, processed_read, fed>>

\* validate_records up to the assertion of _duplicates_check: key not in
\* self.processed_combinations
RaceDupTest(t) ==
    /\ pc[t] = "dc_test"
    /\ LET verdict == validate_records(DataOf(t), processed_combinations)
       IN  IF verdict = "accept"
           THEN SetPc(t, "dc_add") /\ UNCHANGED verdicts
           ELSE /\ SetPc(t, "pb_summary")
                /\ verdicts' = [verdicts EXCEPT ![t] = verdict]
    /\ UNCHANGED <<frame, processed_combinations, summary>>
    /\ UNCHANGED race_frame

\* _duplicates_check: self.processed_combinations.add(key); validate_records
\* returns True and process builds the frame of the accepted record
RaceDupAdd(t) ==
    /\ pc[t] = "dc_add"
    /\ processed_combinations' =
          processed_combinations \cup {DedupKey(DataOf(t))}
    /\ verdicts' = [verdicts EXCEPT ![t] = "accept"]
    /\ frame' = [frame EXCEPT ![t] =
          append_speed(<<PositionOf(DataOf(t), combine_date_time(DataOf(t)))>>)]
    /\ SetPc(t, "pb_summary")
    /\ UNCHANGED summary
    /\ UNCHANGED race_frame

RaceStep ==
    \/ \E t \in Msgs : RaceDupTest(t)
    \/ \E t \in Msgs : RaceDupAdd(t)
    \/ \E t \in Msgs :
          PBSummaryTest(t) /\ UNCHANGED <<alone_vars, processed_read>>
    \/ \E t \in Msgs :
          PBSummarySet(t) /\ UNCHANGED <<alone_vars, processed_read>>
    \/ \E t \in Msgs : PBSave(t) /\ UNCHANGED <<alone_vars, processed_read>>
    \/ \E t \in Msgs : PBCount(t) /\ UNCHANGED alone_vars
    \/ \E t \in Msgs : PBCountStore(t) /\ UNCHANGED alone_vars

NextRace ==
    /\ pipeline = "process_batch_race"
    /\ RaceStep
    /\ UNCHANGED <<pipeline, se_vars>>

----------------------------------------------------------------------------
(* Specifications.                                                         *)

\* no batch function has run alone
InitAlone == fed = << >> /\ verdicts = << >>

InitBC ==
    /\ pipeline = "breadcrumb"
    /\ env_ok = TRUE
    /\ InitShared /\ InitBCState /\ InitSEState /\ InitAlone

InitCrowded ==
    /\ pipeline = "breadcrumb_crowded"
    /\ env_ok = TRUE
    /\ InitShared /\ InitBCState /\ InitSEState /\ InitAlone

InitSE ==
    /\ pipeline = "stop_event"
    /\ env_ok \in BOOLEAN
    /\ InitShared /\ InitBCState /\ InitSEState /\ InitAlone

\* the module state of a fresh process whose sink holds the rows `table`
InitLoader(table) ==
    /\ env_ok = TRUE
    /\ InitShared /\ InitBCState /\ InitAlone
    /\ \E n \in 1..MaxBatchSize : config_vars = [batch_size |-> n]
    /\ metrics = [total_received |-> 0, total_loaded |-> 0,
                  total_skipped |-> 0, total_invalid |-> 0,
                  last_message_time |-> 0, loaded_trip_ids |-> {},
                  message_buffer |-> << >>, buffer_lock |-> NoThread]
    /\ processed_combinations_in_batch = {}
    /\ streaming_pull_future = "none"
    /\ trip_table = table
    /\ received_read = [m \in Msgs |-> 0]
    /\ df_to_insert = [t \in Threads |-> << >>]
    /\ before_batch = BeforeBatch(metrics, table)
    /\ summary_emitted = FALSE
    /\ loads = 0

InitLoad == pipeline = "loader" /\ InitLoader({})

\* a process that starts on an empty sink, or restarts on a sink that holds
\* the row of SEBase's trip from an earlier run
InitSinkUp ==
    /\ pipeline = "loader_sink_up"
    /\ \E table \in {{}, {CleanedRow(SEBase)}} : InitLoader(table)

\* the breadcrumb pipeline
SpecBC == InitBC /\ [][NextBC]_vars

\* the breadcrumb pipeline with more concurrent callbacks than BATCH_SIZE
SpecCrowded == InitCrowded /\ [][NextBC]_vars

\* the stop-event pipeline
SpecSE == InitSE /\ [][NextSE]_vars

\* the stop-event loader alone
SpecLoad == InitLoad /\ [][NextLoad]_vars

\* the stop-event loader alone, its sink always up
SpecSinkUp == InitSinkUp /\ [][NextSinkUp]_vars

\* process_batch alone, on a fresh PubSubProcessor
InitFeed ==
    /\ pipeline \in FeedRuns
    /\ env_ok = TRUE
    /\ InitShared /\ InitBCState /\ InitSEState /\ InitAlone

SpecFeed == InitFeed /\ [][NextFeed]_vars

InitGps ==
    /\ pipeline = "process_batch_gps"
    /\ env_ok = TRUE
    /\ InitShared /\ InitBCState /\ InitSEState /\ InitAlone

SpecGps == InitGps /\ [][NextGps]_vars

InitOrder ==
    /\ pipeline = "process_batch_order"
    /\ env_ok = TRUE
    /\ InitShared /\ InitBCState /\ InitSEState /\ InitAlone

SpecOrder == InitOrder /\ [][NextOrder]_vars

InitRedelivery ==
    /\ pipeline = "process_batch_redelivery"
    /\ env_ok = TRUE
    /\ InitShared /\ InitBCState /\ InitSEState /\ InitAlone

SpecRedelivery == InitRedelivery /\ [][NextRedelivery]_vars

\* every delivery thread has appended its record, been acknowledged and
\* drained a batch that holds it; the control loop sleeps
InitRace ==
    /\ pipeline = "process_batch_race"
    /\ env_ok = TRUE
    /\ payload \in [Msgs -> {Json(r) : r \in RaceRecords}]
    /\ settled = [m \in Msgs |-> <<"ack">>]
    /\ pc = [t \in Threads |-> IF t = Main THEN "sleep" ELSE "dc_test"]
    /\ batch = [t \in Threads |-> IF t = Main THEN << >> ELSE <<t>>]
    /\ frame = [t \in Threads |-> << >>]
    /\ exit_reason = "none"
    /\ batch_outcome = "none"
    /\ streaming_pull = "active"
    /\ buffer = << >>
    /\ buffer_lock = NoThread
    /\ total_received = NMsgs
    /\ total_processed = 0
    /\ idle_time = 0
    /\ processed_combinations = {}
    /\ summary = << >>
    /\ breadcrumb_table = << >>
    /\ drains = [m \in Msgs |-> 1]
    /\ handed = Msgs
    /\ entries_done = [t \in Threads |-> 0]
    /\ processed_read = [t \in Threads |-> 0]
    /\ InitSEState
    /\ fed = << >>
    /\ verdicts = [m \in Msgs |-> "none"]

SpecRace == InitRace /\ [][NextRace]_vars

InitTrips ==
    /\ pipeline = "process_batch_speed"
    /\ env_ok = TRUE
    /\ InitShared /\ InitBCState /\ InitSEState /\ InitAlone

SpecTrips == InitTrips /\ [][NextTrips]_vars

\* _append_speed alone, on any frame of 1..MaxRows rows
InitSpeed ==
    /\ pipeline = "append_speed"
    /\ env_ok = TRUE
    /\ InitShared /\ InitBCState /\ InitSEState
    /\ verdicts = << >>
    /\ \E n \in 1..MaxRows : fed \in [1..n -> PositionRows]

SpecSpeed == InitSpeed /\ [][NextSpeed]_vars

\* either pipeline's batch function alone
InitBatchAlone == InitFeed \/ InitLoad
NextAlone == NextFeed \/ NextLoad
SpecAlone == InitBatchAlone /\ [][NextAlone]_vars

\* a step of the program: of the control loop or of a callback.  The
\* delivery of a message and the interrupt are the environment's
NextLive == NextBC \/ NextSE
ProgramStep ==
    /\ NextLive
    /\ payload' = payload
    /\ ~(exit_reason' = "interrupt" /\ exit_reason # "interrupt")
    /\ ~(pc'[Main] = "interrupted" /\ pc[Main] # "interrupted")

\* the two pipelines, scheduled fairly: the program does not stand still
\* while one of its threads can take a step; messages may never arrive
SpecLive ==
    /\ InitBC \/ InitSE
    /\ [][NextLive]_vars
    /\ WF_vars(ProgramStep)

\* the stop-event program: its pipeline, and its loader alone
InitStopEvent == InitSE \/ InitLoad
NextStopEvent == NextSE \/ NextLoad
SpecStopEvent == InitStopEvent /\ [][NextStopEvent]_vars

Init == InitBC \/ InitSE \/ InitLoad
Next == NextBC \/ NextSE \/ NextLoad

\* any of the three
Spec == Init /\ [][Next]_vars


----------------------------------------------------------------------------
(* Properties.                                                             *)

\* the buffer of the running pipeline, and whether message m's record is in it
TheBuffer == IF pipeline = "breadcrumb" THEN buffer ELSE metrics.message_buffer

Occurrences(ids, m) == Cardinality({i \in 1..Len(ids) : ids[i] = m})

\* m's callback has appended m's record (append and ack are in one branch)
Appended(m) == pc[m] = "ack" \/ settled[m] = <<"ack">>

\* C1: in the breadcrumb pipeline, under every interleaving of
\* process_message, the size-triggered flush and the timer flush, a record
\* that was appended is either still in the buffer or was returned by exactly
\* one drain, never both and never by two drains; a record that was not
\* appended is in neither
C1_DrainedExactlyOnce ==
    pipeline = "breadcrumb" =>
        \A m \in Msgs :
            /\ drains[m] <= 1
            /\ Occurrences(buffer, m) + drains[m] = IF Appended(m) THEN 1 ELSE 0

\* C1 witness: a thread holds a drained batch with one record in it while
\* another record, appended at another time, was returned by another drain
C1_Witness ==
    /\ pipeline = "breadcrumb"
    /\ \A m \in Msgs : drains[m] = 1
    /\ \E t \in Threads : \E m1, m2 \in Msgs :
          /\ Occurrences(batch[t], m1) = 1
          /\ Occurrences(batch[t], m2) = 0

\* C2: when the breadcrumb pipeline has left Running and is Stopped, the
\* buffer is empty and every record whose message was acknowledged has been
\* handed to batch processing
C2_StoppedAfterFinalDrain ==
    (pipeline = "breadcrumb" /\ pc[Main] = "stopped") =>
        /\ buffer = << >>
        /\ \A m \in Msgs : settled[m] = <<"ack">> => m \in handed

\* C3: when the stop-event pipeline has shut down on its idle timeout and
\* every callback has returned, no acknowledged record is left unprocessed:
\* the buffer is empty and every acknowledged record was handed to batch
\* processing
C3_NoAckedRecordLeftAtExit ==
    (/\ pipeline = "stop_event"
     /\ pc[Main] = "stopped"
     /\ exit_reason = "idle"
     /\ \A m \in Msgs : pc[m] \in {"idle", "done"}) =>
        /\ metrics.message_buffer = << >>
        /\ \A m \in Msgs : settled[m] = <<"ack">> => m \in handed

\* C4: a callback acknowledges its message right after buffering the record:
\* a callback that is running validation, transformation or the sink write of
\* a batch has already settled its own message, the threshold-reaching
\* message included
C4_AckBeforeOwnBatch ==
    \A m \in Msgs :
        pc[m] \in SEInBatch \cup InProcessBatch => settled[m] # << >>

\* the buffer, the received counter and the last-activity time are the same
\* after a step as before it
IntakeUnchanged ==
    /\ buffer' = buffer
    /\ total_received' = total_received
    /\ idle_time' = idle_time
    /\ metrics'.message_buffer = metrics.message_buffer
    /\ metrics'.total_received = metrics.total_received
    /\ metrics'.last_message_time = metrics.last_message_time

\* thread t takes this step
StepOf(t) == pc'[t] # pc[t] \/ entries_done'[t] # entries_done[t]

\* C5: every step of the callback of a message whose payload does not
\* decode, from the delivery of the message to the return of the callback,
\* leaves the buffer, the received counter and the last-activity time as they
\* were, and the callback settles its message by a negative acknowledgement
C5_UndecodableIsNacked ==
    [][\A m \in Msgs :
          (payload'[m] = Garbage /\ StepOf(m)) =>
              /\ IntakeUnchanged
              /\ settled'[m] \in {<< >>, <<"nack">>}
              /\ pc'[m] = "done" => settled'[m] = <<"nack">>]_vars

\* C6: each message is settled at most once, a callback that has returned
\* has settled its message exactly once, and a message whose record was
\* appended to the buffer is never negatively acknowledged, whatever happens
\* to its batch
C6_AppendedIsNeverNacked ==
    \A m \in Msgs :
        /\ Len(settled[m]) <= 1
        /\ pc[m] = "done" => Len(settled[m]) = 1
        /\ (Occurrences(TheBuffer, m) > 0 \/ drains[m] > 0) =>
               settled[m] # <<"nack">>

\* C7: a thread that is validating, transforming or writing a batch to the
\* sink does not hold the buffer lock, in the size-triggered, the periodic
\* and the final flush
C7_BatchWorkOutsideLock ==
    \A t \in Threads :
        pc[t] \in SEInBatch \cup InProcessBatch =>
            (buffer_lock # t /\ metrics.buffer_lock # t)

\* C8: in the breadcrumb pipeline no failure of a single record leaves
\* Transformation.process: a batch is never abandoned because one of its
\* records failed a validation or transformation step
C8_RecordFailureStaysInProcess ==
    pipeline = "breadcrumb" => batch_outcome # "raised"

\* thread t's batch leaves process_data and save_to_postgres in this step;
\* before_batch' is then the state the batch was taken in and frame'[t] the
\* cleaned frame that was handed to save_to_postgres
StopEventBatchStep(t) ==
    \/ pc[t] \in SEInBatch /\ pc'[t] \notin SEInBatch
    \/ t = Main /\ loads' # loads

\* the rows of df whose trip_id is in ids
Repeats(df, ids) == {i \in 1..Len(df) : df[i].trip_id \in ids}

RowsOf(table, id) == {row \in table : row.trip_id = id}

\* C9: in the stop-event pipeline, when a batch carries rows of trips that an
\* earlier batch loaded, total_skipped advances by one per such row, a batch
\* made of such rows only leaves total_loaded and the table as they were, and
\* every loaded trip keeps exactly one row
C9_SecondLoadIsSkipped ==
    [][\A t \in Threads :
          StopEventBatchStep(t) =>
              LET before == before_batch'
                  repeats == Repeats(frame'[t], before.loaded_trip_ids)
              IN  /\ metrics'.total_skipped =
                        before.total_skipped + Cardinality(repeats)
                  /\ (frame'[t] # << >> /\ repeats = DOMAIN frame'[t]) =>
                        /\ metrics'.total_loaded = before.total_loaded
                        /\ trip_table' = before.table
                  /\ \A id \in before.loaded_trip_ids :
                        /\ RowsOf(trip_table', id) = RowsOf(before.table, id)
                        /\ Cardinality(RowsOf(trip_table', id)) = 1]_vars

\* C9 witness: a trip was loaded by one batch and arrived again in a later
\* one: one row, one load, one skip
C9_Witness ==
    /\ batch_outcome = "all_skipped"
    /\ metrics.total_loaded = 1
    /\ metrics.total_skipped = 1
    /\ Cardinality(trip_table) = 1

\* the sink write of thread t's batch fails in this step: the copy and commit
\* of save_to_postgres, the loader's batch, save_data of the breadcrumb
\* pipeline
SinkWriteFails(t) ==
    /\ batch_outcome' = "failed"
    /\ \/ pc[t] = "write" /\ pc'[t] # "write"
       \/ t = Main /\ loads' # loads
       \/ pc[t] = "pb_save" /\ pc'[t] # "pb_save"

SinkUnchanged ==
    /\ trip_table' = trip_table
    /\ breadcrumb_table' = breadcrumb_table

\* C10: when the sink write of a batch fails, the sink is as it was before
\* the batch, the loaded and skipped counters and the loaded-id set have the
\* values they had when the batch was taken, and the processed counter is
\* left alone; and the loaded-id set and the loaded counter change only with a
\* committed write behind them, the set holding no trip without a row
C10_FailedWriteChangesNoCounter ==
    [][/\ \A t \in Threads :
             SinkWriteFails(t) =>
                 /\ SinkUnchanged
                 /\ trip_table' = before_batch'.table
                 /\ metrics'.total_loaded = before_batch'.total_loaded
                 /\ metrics'.total_skipped = before_batch'.total_skipped
                 /\ metrics'.loaded_trip_ids = before_batch'.loaded_trip_ids
                 /\ total_processed' = total_processed
       /\ (\/ metrics'.loaded_trip_ids # metrics.loaded_trip_ids
           \/ metrics'.total_loaded # metrics.total_loaded) =>
             /\ batch_outcome' = "committed"
             /\ metrics'.loaded_trip_ids \subseteq
                   {row.trip_id : row \in trip_table'}]_vars

\* C11: in the breadcrumb pipeline a failed sink write ends only that call of
\* process_batch: the thread returns to where it was called from (the control
\* loop to its idle check, still Running, with the subscription as it was)
\* and the buffer is left alone; and a record that was handed to batch
\* processing is never in the buffer again and never drained again
C11_FailedBatchNotRetried ==
    [][/\ \A t \in Threads :
             (/\ pc[t] = "pb_save" /\ pc'[t] # "pb_save"
              /\ batch_outcome' = "failed" /\ exit_reason' = exit_reason) =>
                 /\ pc'[t] = IF t = Main THEN "idle_check" ELSE "done"
                 /\ buffer' = buffer
                 /\ streaming_pull' = streaming_pull
       /\ \A m \in handed :
             /\ Occurrences(buffer', m) = 0
             /\ drains'[m] = 1
             /\ \A t \in Threads :
                   (pc[t] = "pb_drain" /\ pc'[t] = "pb_process") =>
                       Occurrences(batch'[t], m) = 0]_vars

\* C11 witness: two different valid records went through two batches while
\* the control loop kept running; the sink holds one row and the last write
\* was committed, so the earlier batch's write had failed
C11_Witness ==
    /\ pipeline = "breadcrumb"
    /\ exit_reason = "none"
    /\ payload[1] = Json(BCBase)
    /\ payload[2] = Json(BCLater)
    /\ handed = {1, 2}
    /\ \A t \in Threads : pc[t] \notin InProcessBatch
    /\ batch_outcome = "committed"
    /\ Len(breadcrumb_table) = 1

\* C12: with the sink up, a row whose trip_id the sink already holds (from
\* the same batch or from before a restart) is passed over and the batch's
\* other rows are committed: after every batch each trip of the cleaned
\* frame has a row in the sink
C12_ConflictingRowIgnored ==
    pipeline = "loader_sink_up" =>
        \A i \in DOMAIN frame[Main] :
            \E row \in trip_table : row.trip_id = frame[Main][i].trip_id

\* the records of fed' that validate_records accepts when nothing has been
\* seen, as positions
OtherwiseValid(records) ==
    {i \in DOMAIN records : validate_records(records[i], {}) = "accept"}

\* the positions of `records` before i that hold an otherwise valid record
\* with the DedupKey of records[i]
EarlierSameKey(records, i) ==
    {j \in OtherwiseValid(records) :
        j < i /\ DedupKey(records[j]) = DedupKey(records[i])}

\* a batch has been processed in this step and no exception left it
Processed == fed' # << >> /\ loads' # loads /\ Len(verdicts') = Len(fed')

\* C13: of the otherwise valid records with one DedupKey that reach one
\* validator, in any order and in the same or in different batches, exactly
\* one is accepted and every other is rejected as a duplicate: a record is
\* accepted iff its key is neither in the validator's set nor on an earlier
\* record of the batch, and the key of every such record is in the set
\* afterwards, which only grows
C13_OneAcceptancePerKey ==
    [][Processed =>
         /\ processed_combinations \subseteq processed_combinations'
         /\ \A i \in OtherwiseValid(fed') :
               /\ verdicts'[i] \in {"accept", "reject"}
               /\ verdicts'[i] = "accept" <=>
                     /\ DedupKey(fed'[i]) \notin processed_combinations
                     /\ EarlierSameKey(fed', i) = {}
               /\ DedupKey(fed'[i]) \in processed_combinations']_vars

\* C13 witness: BCSameKey was accepted and written in an earlier batch, and
\* BCBase, alone in a later batch, has been rejected
C13_Witness ==
    /\ pipeline = "process_batch_keys"
    /\ fed = <<BCBase>> /\ verdicts = <<"reject">>
    /\ \E i \in DOMAIN breadcrumb_table :
          breadcrumb_table[i].latitude = PyFloat(456)

\* the positions of `records` that the stop-event cleaner accepts and
\* converts when they open a batch
CleanAlone(records) ==
    {i \in DOMAIN records :
        /\ is_valid_record(records[i], {}) = "valid"
        /\ ~ConversionFails(records[i])}

\* the position is the first of its batch with its (trip_id, vehicle_id)
FirstOfKey(records, i) ==
    \A j \in DOMAIN records :
        (j < i /\ is_valid_record(records[j], {}) = "valid") =>
            RecordKey(records[j]) # RecordKey(records[i])

\* the loader has processed a batch in this step and no exception left the
\* cleaner
Cleaned ==
    pipeline = "loader" /\ loads' # loads /\ batch_outcome' # "raised"

\* C14: the breadcrumb validator's dedup set lasts for the validator's
\* lifetime: a record whose key is in the set when its batch starts is
\* rejected, and an accepted key stays in the set.  The stop-event
\* cleaner's set is emptied at the start of each batch: whatever it held
\* before, the first record of a batch with a (trip_id, vehicle_id) is
\* accepted, and afterwards the set holds keys of this batch only
C14_DedupScope ==
    [][/\ (pipeline \in FeedRuns /\ Processed) =>
             /\ \A i \in OtherwiseValid(fed') :
                   /\ DedupKey(fed'[i]) \in processed_combinations =>
                         verdicts'[i] = "reject"
                   /\ verdicts'[i] = "accept" =>
                         DedupKey(fed'[i]) \in processed_combinations'
             /\ \A key \in processed_combinations :
                   key \in processed_combinations'
       /\ Cleaned =>
             /\ \A i \in CleanAlone(fed') :
                   FirstOfKey(fed', i) =>
                      \E k \in DOMAIN frame'[Main] :
                          frame'[Main][k] = CleanedRow(fed'[i])
             /\ \A key \in processed_combinations_in_batch' :
                   \E i \in DOMAIN fed' : key = RecordKey(fed'[i])]_vars

\* C14 witness: the cleaner has accepted the records of a later batch
\* although the trip of each had been accepted and loaded from an earlier
\* batch
C14_Witness ==
    /\ pipeline = "loader"
    /\ batch_outcome = "all_skipped"
    /\ fed = <<SEBase>> /\ frame[Main] = <<CleanedRow(SEBase)>>
    /\ processed_combinations_in_batch = {RecordKey(SEBase)}

\* the position lies in [45.2, 45.7] x [-124.0, -122.0] and neither
\* coordinate is within 1 of zero (tenths of a degree)
InGeofence(lat, lon) ==
    /\ 452 <= Num(lat) /\ Num(lat) <= 457
    /\ -1240 <= Num(lon) /\ Num(lon) <= -1220
    /\ ~(Abs(Num(lat)) < 10) /\ ~(Abs(Num(lon)) < 10)

\* C15: every record the breadcrumb validator has accepted lies in the
\* geofence, and so does every position row of the frame that
\* Transformation.process returned and every row written to the sink
C15_AcceptedInGeofence ==
    /\ \A i \in DOMAIN verdicts :
          verdicts[i] = "accept" =>
              InGeofence(fed[i].GPS_LATITUDE, fed[i].GPS_LONGITUDE)
    /\ \A t \in Threads : \A i \in DOMAIN frame[t] :
          pipeline \in {"breadcrumb", "process_batch_gps"} \cup FeedRuns =>
              InGeofence(frame[t][i].latitude, frame[t][i].longitude)
    /\ \A i \in DOMAIN breadcrumb_table :
          InGeofence(breadcrumb_table[i].latitude,
                     breadcrumb_table[i].longitude)

\* C15 witness: a batch of a record on a corner of the geofence, accepted
\* and written, and a record just outside it, rejected
C15_Witness ==
    /\ pipeline = "process_batch_gps"
    /\ Len(fed) = 2 /\ verdicts = <<"accept", "reject">>
    /\ fed[1].GPS_LATITUDE = PyFloat(452)
    /\ fed[1].GPS_LONGITUDE = PyFloat(-1220)
    /\ fed[2].GPS_LATITUDE = PyFloat(458)
    /\ fed[2].EVENT_NO_TRIP = fed[1].EVENT_NO_TRIP
    /\ fed[2].ACT_TIME # fed[1].ACT_TIME
    /\ Len(breadcrumb_table) = 1

\* C16: a record that is rejected contributes to neither output of its
\* batch: every position row of the returned frame and every trip metadata
\* entry the batch adds comes from a record of the batch that the validator
\* accepted
C16_RejectedRecordInNoOutput ==
    [][(pipeline \in FeedRuns /\ Processed) =>
          /\ \A k \in DOMAIN frame'[Main] :
                \E i \in DOMAIN fed' :
                    /\ verdicts'[i] = "accept"
                    /\ fed'[i].EVENT_NO_TRIP[2] = frame'[Main][k].trip_id
          /\ \A k \in DOMAIN summary' :
                k > Len(summary) =>
                    \E i \in DOMAIN fed' :
                        /\ verdicts'[i] = "accept"
                        /\ fed'[i].EVENT_NO_TRIP = summary'[k].trip_id]_vars

\* the trip id of a record as build_summary reads it
TripOf(data) == KeyVal(Get(data, "EVENT_NO_TRIP", PyNone))

\* C17: trip metadata is first-seen-wins for the builder's lifetime: a
\* batch leaves every entry the builder already has as it is, no trip has
\* two entries, and the entry a batch adds for a trip carries the route,
\* vehicle and service key of the batch's first record of that trip
C17_FirstSeenWins ==
    [][(pipeline = "process_batch_trips" /\ loads' # loads) =>
          /\ Len(summary') >= Len(summary)
          /\ \A k \in DOMAIN summary : summary'[k] = summary[k]
          /\ \A k, l \in DOMAIN summary' :
                KeyVal(summary'[k].trip_id) = KeyVal(summary'[l].trip_id)
                    => k = l
          /\ \A k \in DOMAIN summary' :
                k > Len(summary) =>
                    \E i \in DOMAIN fed' :
                        /\ TripOf(fed'[i]) = KeyVal(summary'[k].trip_id)
                        /\ \A j \in 1..(i - 1) : TripOf(fed'[j]) # TripOf(fed'[i])
                        /\ summary'[k].route_id =
                               Get(fed'[i], "ROUTE_ID", PyInt(0))
                        /\ summary'[k].vehicle_id =
                               Get(fed'[i], "VEHICLE_ID", PyNone)
                        /\ summary'[k].service_key = ServiceType(fed'[i])]_vars

\* C17 witness: the entry of trip 100 was made from BCBase (vehicle 3, no
\* route), and a later batch has brought the same trip from vehicle 4 on
\* route 5
C17_Witness ==
    /\ pipeline = "process_batch_trips"
    /\ fed = <<BCRerouted>> /\ verdicts = <<"accept">>
    /\ Len(summary) = 1
    /\ summary[1].trip_id = PyInt(100)
    /\ summary[1].route_id = PyInt(0)
    /\ summary[1].vehicle_id = PyInt(3)

\* the positions of `records` whose record the cleaner accepts at the head
\* of a batch and that are the first of the batch with their key
Firsts(records) ==
    {i \in DOMAIN records :
        is_valid_record(records[i], {}) = "valid" /\ FirstOfKey(records, i)}

\* C18: of the records of one stop-event batch with one (trip_id,
\* vehicle_id) only the first is accepted; each later one is rejected and
\* counted invalid, so the cleaned frame has one row per key and
\* total_invalid advances by the number of records that gave no row; and
\* when the batch is committed the sink has exactly one row for the trip
\* of each row of the frame
C18_OneRowPerKeyOfBatch ==
    [][Cleaned =>
          /\ \A i \in DOMAIN fed' :
                (is_valid_record(fed'[i], {}) = "valid" /\ ~FirstOfKey(fed', i))
                    => \A k \in DOMAIN frame'[Main] :
                          \E j \in Firsts(fed') :
                              frame'[Main][k] = CleanedRow(fed'[j])
          /\ Len(frame'[Main]) =
                Cardinality({i \in Firsts(fed') : ~ConversionFails(fed'[i])})
          /\ metrics'.total_invalid - metrics.total_invalid =
                Len(fed') - Len(frame'[Main])
          /\ batch_outcome' = "committed" =>
                \A k \in DOMAIN frame'[Main] :
                    Cardinality(RowsOf(trip_table',
                                       frame'[Main][k].trip_id)) = 1]_vars

\* C18 witness: a batch of SEBase twice has been loaded: one row in the
\* frame, one record counted invalid, one row for the trip in the sink
C18_Witness ==
    /\ pipeline = "loader"
    /\ fed = <<SEBase, SEBase>>
    /\ frame[Main] = <<CleanedRow(SEBase)>>
    /\ metrics.total_invalid = 1 /\ metrics.total_loaded = 1
    /\ batch_outcome = "committed"
    /\ RowsOf(trip_table, 55) = {CleanedRow(SEBase)}

\* the rows of df in the order of (trip_id, timestamp)
IsSortedByTripAndTime(df) ==
    \A i \in 1..(Len(df) - 1) :
        \/ df[i].trip_id < df[i + 1].trip_id
        \/ /\ df[i].trip_id = df[i + 1].trip_id
           /\ df[i].timestamp <= df[i + 1].timestamp

\* a and b hold the same rows the same number of times
SameRows(a, b) ==
    /\ Len(a) = Len(b)
    /\ \A row \in {a[i] : i \in DOMAIN a} :
          Cardinality({i \in DOMAIN a : a[i] = row}) =
          Cardinality({i \in DOMAIN b : b[i] = row})

\* row i is the earliest sample of its trip in the sorted frame
EarliestOfTrip(df, i) == i = 1 \/ df[i - 1].trip_id # df[i].trip_id

TimeDelta(df, i) == df[i].timestamp - df[i - 1].timestamp
OdometerDelta(df, i) == df[i].meters - df[i - 1].meters

\* the quotient of row i is null before the fill: the earliest sample of a
\* trip, or 0 / 0
NullBeforeFill(df, i) ==
    \/ EarliestOfTrip(df, i)
    \/ TimeDelta(df, i) = 0 /\ OdometerDelta(df, i) = 0

\* the rows above i of i's trip whose quotient is not null
EarlierNonNull(df, i) ==
    {j \in 1..(i - 1) :
        df[j].trip_id = df[i].trip_id /\ ~NullBeforeFill(df, j)}

Latest(S) == CHOOSE j \in S : \A l \in S : l <= j

\* the output of _append_speed is right for the input `df`
SpeedsDerived(df, out) ==
    LET sorted == sort_values(df)
    IN  /\ IsSortedByTripAndTime(sorted) /\ SameRows(sorted, df)
        /\ Len(out) = Len(sorted)
        /\ \A i \in DOMAIN out :
              /\ out[i].trip_id = sorted[i].trip_id
              /\ out[i].timestamp = sorted[i].timestamp
              /\ EarliestOfTrip(sorted, i) => out[i].speed = NaN
              /\ (~EarliestOfTrip(sorted, i) /\ TimeDelta(sorted, i) > 0) =>
                    /\ out[i].speed[1] = "val"
                    /\ out[i].speed[3] > 0
                    /\ out[i].speed[2] * TimeDelta(sorted, i) =
                       out[i].speed[3] * OdometerDelta(sorted, i)
              /\ NullBeforeFill(sorted, i) =>
                    out[i].speed =
                        IF EarlierNonNull(sorted, i) = {} THEN NaN
                        ELSE out[Latest(EarlierNonNull(sorted, i))].speed

\* the frame of the spec's example: trip 100 with the odometer at 0, 50 and
\* 120 m at 0, 10 and 30 s
ExampleFrame ==
    [i \in 1..3 |->
        [timestamp |-> <<0, 100, 300>>[i], latitude |-> BCBase.GPS_LATITUDE,
         longitude |-> BCBase.GPS_LONGITUDE, trip_id |-> 100,
         meters |-> <<0, 500, 1200>>[i]]]

SpeedColumn(df) == [i \in DOMAIN df |-> df[i].speed]

\* C19: _append_speed sorts by (trip_id, timestamp); the earliest sample of
\* each trip has a null speed, a later sample with a positive time delta has
\* the odometer delta over the time delta to the sample before it, and a
\* null quotient is filled from the latest earlier non-null speed of the
\* same trip, or stays null; the example frame gives [null, 5.0, 3.5]
C19_SpeedDerivation ==
    (pipeline = "append_speed" /\ loads = 1) =>
        /\ SpeedsDerived(fed, frame[Main])
        /\ fed = ExampleFrame =>
              SpeedColumn(frame[Main]) = <<NaN, <<"val", 5, 1>>, <<"val", 7, 2>>>>

\* C19 witness: the samples of two trips given out of order; trip 100's
\* later sample has speed 5.0, and the only sample of trip 200, which the
\* sort puts right after it, is null
C19_Witness ==
    /\ pipeline = "append_speed" /\ loads = 1
    /\ Len(fed) = 3
    /\ fed[1].trip_id = 200 /\ fed[2].trip_id = 100 /\ fed[3].trip_id = 100
    /\ fed[3].timestamp < fed[2].timestamp
    /\ SpeedColumn(frame[Main]) = <<NaN, <<"val", 5, 1>>, NaN>>

\* seconds since the last append, as the control loop computes them
IdleSeconds ==
    IF pipeline = "breadcrumb" THEN idle_time ELSE metrics.last_message_time

\* the subscription has been cancelled
Cancelled ==
    IF pipeline = "breadcrumb" THEN streaming_pull = "cancelled"
    ELSE streaming_pull_future = "cancelled"

\* Starting (0), Running (1), Draining (2), Stopped (3), from the control
\* loop's position and reason to leave
Lifecycle(at, reason) ==
    IF at = "stopped" THEN 3
    ELSE IF reason # "none" THEN 2
    ELSE IF at \in {"start", "subscribe"} THEN 0
    ELSE 1

\* C20: once more than IDLE_TIMEOUT seconds have passed since the last
\* append, the fairly scheduled control loop reaches Stopped with the
\* subscription cancelled, whatever happened to earlier batches, unless a
\* KeyboardInterrupt strikes inside the finally block and ends the process
\* there; the lifecycle never moves back and nothing follows Stopped in the
\* control loop
C20_IdleLeadsToStopped ==
    /\ (IdleSeconds > IDLE_TIMEOUT) ~>
          ((pc[Main] = "stopped" /\ Cancelled) \/ pc[Main] = "interrupted")
    /\ [][/\ Lifecycle(pc'[Main], exit_reason') >=
               Lifecycle(pc[Main], exit_reason)
          /\ pc[Main] = "stopped" =>
               /\ pc'[Main] = "stopped"
               /\ exit_reason' = exit_reason
               /\ Cancelled' = Cancelled]_vars

\* C20 witness: the breadcrumb pipeline has stopped on the idle timeout,
\* the subscription cancelled, after the sink write of its last batch
\* failed
C20_Witness ==
    /\ pipeline = "breadcrumb"
    /\ pc[Main] = "stopped" /\ exit_reason = "idle"
    /\ idle_time > IDLE_TIMEOUT
    /\ streaming_pull = "cancelled"
    /\ batch_outcome = "failed"

\* C21: every run of the stop-event pipeline that has reached Stopped has
\* emitted the Pipeline Summary
C21_StoppedHasEmittedSummary ==
    (pipeline = "stop_event" /\ pc[Main] = "stopped") => summary_emitted

\* the exit status of the stop-event process: the __main__ block catches
\* ValueError and Exception and calls no exit function, so the interpreter
\* ends with status 0 after either handler and after a normal return; only
\* an exception that escapes the block gives status 1
exit_status(reason) ==
    IF reason \in {"config_error", "unhandled_error", "idle"} THEN 0 ELSE 1

\* C22: a run of the stop-event pipeline stopped by a configuration error
\* has never subscribed, has received and acknowledged no message, and its
\* process ends with a non-zero exit status
C22_ConfigErrorIsFatal ==
    (pipeline = "stop_event" /\ pc[Main] = "stopped"
        /\ exit_reason = "config_error") =>
        /\ streaming_pull_future = "none"
        /\ \A m \in Msgs : pc[m] = "idle" /\ settled[m] = << >>
        /\ metrics.total_received = 0
        /\ exit_status(exit_reason) # 0

\* C22, the part the program keeps: after a configuration error there is
\* no subscription and no message was received or settled
C22_ConfigErrorNeverSubscribes ==
    (pipeline = "stop_event" /\ pc[Main] = "stopped"
        /\ exit_reason = "config_error") =>
        /\ streaming_pull_future = "none"
        /\ \A m \in Msgs : pc[m] = "idle" /\ settled[m] = << >>
        /\ metrics.total_received = 0

\* the number of records the stop-event callbacks have appended so far:
\* a record is appended once, and is then in the buffer or in a drain
RecordsAppended ==
    Cardinality({m \in Msgs :
        Occurrences(metrics.message_buffer, m) + drains[m] > 0})

\* a callback is between its read of total_received and its append
CountingOrAppending == \E m \in Msgs : pc[m] \in {"count", "lock", "append"}

\* C23: no update of total_received is lost in the stop-event pipeline:
\* whenever no callback is between counting and appending, total_received
\* is the number of records appended to the buffer
C23_NoCounterUpdateLost ==
    (pipeline = "stop_event" /\ ~CountingOrAppending) =>
        metrics.total_received = RecordsAppended

\* C24: in the breadcrumb pipeline no batch a callback drained after its
\* size check is larger than BATCH_SIZE, however many callbacks run at once
C24_NoBatchAboveBatchSize ==
    pipeline \in BCRuns => \A m \in Msgs : Len(batch[m]) <= BatchSize

\* a step of the control loop's process_batch that leaves position `at`
\* (and is not the interrupt)
TickLeaves(at) ==
    /\ pipeline = "breadcrumb"
    /\ pc[Main] = at /\ pc'[Main] # at
    /\ exit_reason' = exit_reason

\* C25: in the breadcrumb pipeline every tick of the control loop reaches
\* its drain, which takes the whole buffer whatever its length, and hands
\* the batch to processing; a tick that finds the buffer empty returns at
\* once, changing nothing and never reaching the sink write; and a record
\* that is in the buffer while the pipeline is Running is drained (unless
\* the run is interrupted first)
C25_TickDrainsWhateverTheSize ==
    /\ [][TickLeaves("pb_drain") =>
            IF buffer = << >>
            THEN /\ pc'[Main] = "idle_check"
                 /\ UNCHANGED <<buffer, batch, drains, handed, batch_outcome,
                                breadcrumb_table, total_processed,
                                processed_combinations, summary>>
            ELSE /\ pc'[Main] = "pb_process"
                 /\ batch'[Main] = buffer
                 /\ buffer' = << >>
                 /\ \A m \in Msgs :
                       Occurrences(buffer, m) > 0 => drains'[m] > 0]_vars
    /\ [][TickLeaves("pb_process") =>
            \A i \in 1..Len(batch[Main]) : batch[Main][i] \in handed']_vars
    /\ [](pipeline = "breadcrumb" /\ pc[Main] \in InProcessBatch
            => batch[Main] # << >>)
    /\ (pipeline = "breadcrumb" /\ pc[Main] = "pb_lock") ~>
            (pc[Main] # "pb_lock")
    /\ \A m \in Msgs :
          (/\ pipeline = "breadcrumb"
           /\ Occurrences(buffer, m) > 0
           /\ Lifecycle(pc[Main], exit_reason) = 1)
             ~> (drains[m] > 0 \/ exit_reason = "interrupt")

\* C25 witness: a tick has drained a buffer shorter than BATCH_SIZE and is
\* about to process it
C25_Witness ==
    /\ pipeline = "breadcrumb"
    /\ pc[Main] = "pb_process"
    /\ Len(batch[Main]) > 0 /\ Len(batch[Main]) < BATCH_SIZE
    /\ buffer = << >>

\* C26: in the output of _append_speed a sample whose time delta to the
\* sample before it of the same trip is zero has a null speed, or the
\* finite speed the fill gave it, whatever its odometer delta
C26_ZeroTimeDeltaGivesNull ==
    (pipeline = "append_speed" /\ loads = 1) =>
        LET sorted == sort_values(fed)
        IN  \A i \in DOMAIN sorted :
              (~EarliestOfTrip(sorted, i) /\ TimeDelta(sorted, i) = 0) =>
                  \/ frame[Main][i].speed = NaN
                  \/ frame[Main][i].speed[1] = "val"

\* what check k of the validator makes of the record: "ok", "reject" (an
\* AssertionError) or "raise"; the checks numbered in the order required
\* fields, GPS, speed, vehicle and odometer, jump, time, duplicate
CheckOutcome(k, record, seen) ==
    CASE k = 1 -> IF validate_required_fields(record) THEN "ok" ELSE "reject"
      [] k = 2 -> IF gps_validator(record) THEN "ok" ELSE "reject"
      [] k = 3 -> validate_speed_plausibility(record)
      [] k = 4 -> IF validate_vehicle_data(record) THEN "ok" ELSE "reject"
      [] k = 5 -> IF check_geographic_jump(record) THEN "ok" ELSE "reject"
      [] k = 6 -> IF validate_temporal_data(record) THEN "ok" ELSE "reject"
      [] k = 7 -> IF duplicates_check(record, seen) = "accept" THEN "ok"
                  ELSE duplicates_check(record, seen)

\* the first check, in that order, that does not pass the record
FirstFailing(record, seen) ==
    {k \in 1..7 : /\ \A j \in 1..(k - 1) : CheckOutcome(j, record, seen) = "ok"
                  /\ CheckOutcome(k, record, seen) # "ok"}

VerdictInOrder(record, seen) ==
    IF FirstFailing(record, seen) = {} THEN "accept"
    ELSE CheckOutcome(CHOOSE k \in FirstFailing(record, seen) : TRUE,
                      record, seen)

\* the DedupKeys of the records accepted among the first n of the batch
AcceptedKeys(records, vs, n) ==
    {DedupKey(records[j]) : j \in {j \in 1..n : vs[j] = "accept"}}

\* C27: the verdict on every record of a batch is that of the first check
\* that fails in the order required fields, GPS, speed, vehicle/odometer,
\* jump, time, duplicate, no later check being run; and the dedup set after
\* the batch is the set before it with the DedupKeys of exactly the
\* accepted records added, so that a rejected record never adds its key and
\* the set, empty at the start, always holds the keys of the records
\* accepted so far
C27_ChecksInOrderKeysOfAccepted ==
    [][(pipeline = "process_batch_order" /\ loads' # loads) =>
         /\ \A i \in DOMAIN verdicts' :
               verdicts'[i] =
                  VerdictInOrder(fed'[i],
                      processed_combinations \cup
                          AcceptedKeys(fed', verdicts', i - 1))
         /\ processed_combinations' =
               processed_combinations \cup
                   AcceptedKeys(fed', verdicts', Len(verdicts'))]_vars

\* C27 witness: a record with BCBase's key was rejected by the GPS check
\* (its speed check would have raised) and BCBase, after it in the batch,
\* was accepted; the set holds that one key
C27_Witness ==
    /\ pipeline = "process_batch_order"
    /\ fed = <<BCOffMapNullSpeed, BCBase>>
    /\ verdicts = <<"reject", "accept">>
    /\ processed_combinations = {DedupKey(BCBase)}

\* the records of the batch that validate_records accepted
Accepted(vs) == {i \in DOMAIN vs : vs[i] = "accept"}

\* C28: process_batch never takes a key out of the dedup set: after a batch
\* whose sink write failed the keys of its accepted records are in the set
\* and the sink is as it was; and a record whose key is in the set when its
\* batch arrives is rejected, the sink receiving one row per accepted
\* record of a committed batch and nothing else
C28_KeysStayAfterFailedWrite ==
    [][(pipeline = "process_batch_redelivery" /\ loads' # loads) =>
         /\ processed_combinations \subseteq processed_combinations'
         /\ AcceptedKeys(fed', verdicts', Len(verdicts')) \subseteq
               processed_combinations'
         /\ batch_outcome' = "failed" =>
               /\ Accepted(verdicts') # {}
               /\ breadcrumb_table' = breadcrumb_table
         /\ \A i \in DOMAIN fed' :
               DedupKey(fed'[i]) \in processed_combinations =>
                   verdicts'[i] = "reject"
         /\ Len(breadcrumb_table') =
               Len(breadcrumb_table) +
                  (IF batch_outcome' = "committed"
                   THEN Cardinality(Accepted(verdicts')) ELSE 0)]_vars

\* C28 witness: BCBase has been delivered after the write of the batch
\* that first carried its key failed: it is rejected, its key is in the set
\* and the sink is empty
C28_Witness ==
    /\ pipeline = "process_batch_redelivery"
    /\ loads = MaxLoads
    /\ fed = <<BCBase>> /\ verdicts = <<"reject">>
    /\ processed_combinations = {DedupKey(BCBase)}
    /\ breadcrumb_table = << >>

\* C29: of the process_batch calls that run at once on records with one
\* DedupKey, the shared validator accepts at most one
C29_KeyAcceptedAtMostOnce ==
    pipeline = "process_batch_race" =>
        \A t, u \in Msgs :
            (/\ t # u
             /\ DedupKey(DataOf(t)) = DedupKey(DataOf(u))
             /\ verdicts[t] = "accept") => verdicts[u] # "accept"

\* C29, the summary: an entry of the shared trip summary is never replaced
C29_FirstSeenEntryKept ==
    [][pipeline = "process_batch_race" =>
          \A i \in 1..Len(summary) : summary'[i] = summary[i]]_vars

\* the number of records in all the batches drained so far
RECURSIVE DrainedUpTo(_)
DrainedUpTo(n) == IF n = 0 THEN 0 ELSE drains[n] + DrainedUpTo(n - 1)

\* C30: in the breadcrumb pipeline, whenever the buffer lock is free,
\* total_received is the length of the buffer plus the number of records
\* in all the batches drained so far; total_received never decreases, and
\* a step that drains leaves it as it is
C30_ReceivedIsBufferedPlusDrained ==
    /\ [](pipeline = "breadcrumb" /\ LockFree(buffer_lock) =>
             total_received = Len(buffer) + DrainedUpTo(NMsgs))
    /\ [][pipeline = "breadcrumb" =>
             /\ total_received' >= total_received
             /\ drains' # drains => total_received' = total_received]_vars

\* C30 witness: with the lock free, one record has been drained and another
\* is in the buffer
C30_Witness ==
    /\ pipeline = "breadcrumb"
    /\ LockFree(buffer_lock)
    /\ total_received = 2
    /\ Len(buffer) = 1
    /\ DrainedUpTo(NMsgs) = 1

\* the records the stop-event counters have accounted for
Counted(m) == m.total_loaded + m.total_skipped + m.total_invalid

\* the number of records in the batch that leaves process_data and
\* save_to_postgres in this step
BatchLength(t) == IF pipeline = "loader" THEN Len(fed') ELSE Len(batch[t])

\* a thread is between connection.commit() and the end of its
\* total_loaded += len(df_to_insert)
Committing(t) == pc[t] \in {"mark", "loaded"}

\* C31: in the stop-event pipeline and in its loader run on successive
\* batches, with the sink up or down for each: every trip in
\* loaded_trip_ids has a committed row at every moment; whenever no thread
\* is between the commit of a batch and the count of its rows, and so after
\* every batch, total_loaded is the number of rows committed, and a thread
\* that is there has committed exactly the rows of its df_to_insert that
\* total_loaded does not have yet; each batch adds to loaded + skipped +
\* invalid at most the number of its records, no step takes anything from a
\* counter, and in the pipeline that sum never exceeds the number of records
\* drained
C31_CountersWithinDrained ==
    /\ [](pipeline \in {"stop_event", "loader"} =>
             /\ \A id \in metrics.loaded_trip_ids :
                   RowsOf(trip_table, id) # {}
             /\ (\A t \in Threads : ~Committing(t)) =>
                   metrics.total_loaded = Cardinality(trip_table)
             /\ \A t \in Threads :
                   Committing(t) =>
                      Cardinality(trip_table) =
                         metrics.total_loaded + Len(df_to_insert[t]))
    /\ [](pipeline = "stop_event" =>
             Counted(metrics) <= DrainedUpTo(NMsgs))
    /\ [][(pipeline \in {"stop_event", "loader"}) =>
            (/\ metrics'.total_loaded >= metrics.total_loaded
             /\ metrics'.total_skipped >= metrics.total_skipped
             /\ metrics'.total_invalid >= metrics.total_invalid
             /\ \A t \in Threads :
                   StopEventBatchStep(t) =>
                      Counted(metrics') <=
                         Counted(before_batch') + BatchLength(t))]_vars

\* C31 witness: the pipeline between batches, after two batches of one valid
\* record of the same trip each: the write of the first failed and left its
\* record uncounted, the second was committed and counted
C31_Witness ==
    /\ pipeline = "stop_event"
    /\ \A t \in Threads : pc[t] \notin SEInBatch
    /\ \A m \in Msgs : payload[m] = Json(SEBase) /\ drains[m] = 1
    /\ batch_outcome = "committed"
    /\ metrics.total_loaded = 1 /\ Cardinality(trip_table) = 1
    /\ Counted(metrics) = 1

\* the positions of the records of the batch that validate_records
\* accepted, in their order
RECURSIVE AcceptedPositions(_, _)
AcceptedPositions(records, vs) ==
    IF records = << >> THEN << >>
    ELSE (IF Head(vs) = "accept"
          THEN <<PositionOf(Head(records), combine_date_time(Head(records)))>>
          ELSE << >>) \o AcceptedPositions(Tail(records), Tail(vs))

\* the rows of a frame that belong to the trip
OfTrip(df, trip) == SelectSeq(df, LAMBDA row : row.trip_id = trip)

\* C32: the frame process returns for a batch holds one row per accepted
\* record of that batch; the earliest sample of each trip in it has a null
\* speed, whatever was processed and written before; and the rows of a trip
\* are those the derivation gives for that trip's accepted samples of the
\* batch taken alone
C32_SpeedFromOwnBatchAndTrip ==
    [][(pipeline = "process_batch_speed" /\ Processed) =>
         LET acc == AcceptedPositions(fed', verdicts')
             out == frame'[Main]
         IN  /\ Len(out) = Len(acc)
             /\ \A i \in DOMAIN out :
                   EarliestOfTrip(out, i) => out[i].speed = NaN
             /\ \A trip \in TripIds(out) :
                   OfTrip(out, trip) = append_speed(OfTrip(acc, trip))]_vars

\* C32 witness: BCBase was written by an earlier batch, and BCLater, the
\* next sample of its trip, alone in this batch, has a null speed
C32_Witness ==
    /\ pipeline = "process_batch_speed"
    /\ Len(breadcrumb_table) = 2
    /\ breadcrumb_table[1].trip_id = 100
    /\ breadcrumb_table[1].tstamp < breadcrumb_table[2].tstamp
    /\ fed = <<BCLater>> /\ verdicts = <<"accept">>
    /\ frame[Main][1].speed = NaN
    /\ breadcrumb_table[2].speed = NaN

====
